---- MODULE Spec2Model ----
(***************************************************************************)
(* Model of the FloatChat query pipeline (backend/src): the SQL validator  *)
(* and executor of db_manager.py, the conversation store of                *)
(* chat_history_manager.py, the retrieval/generation core of rag_core.py   *)
(* and the request orchestration of main.py.                               *)
(*                                                                         *)
(* SQL text is a sequence of atoms.  An atom is a word ("SELECT", "x"),    *)
(* one punctuation character (";", "(", "-"), a whitespace character       *)
(* (" ", "\n").  Message texts of the conversation store are represented   *)
(* by their length in characters.                                          *)
(***************************************************************************)
EXTENDS Integers, Sequences, FiniteSets, TLC

VARIABLES
    eqpc,        \* execute_query: position of the call ("idle" when none)
    eqSql,       \* execute_query: its sql_query argument
    eqSan,       \* execute_query: sanitized_query (<<>> before step 2)
    eqSanitized, \* execute_query: sanitize_sql has been called in this call
    storeLog,    \* statements this call handed to the relational store
    eqResult,    \* the QueryExecutionResult returned (NoResult before)
    eqRaised,    \* an exception left execute_query
    chat,        \* table chat_history: session -> set of turns
    stack,       \* process -> its running ChatHistoryManager calls, innermost last
    ret,         \* process -> what its last finished outermost call returned
    ncalls,      \* process -> add_message calls made by its caller so far
    written,     \* session -> the turn_index values inserted, in order of insertion
    sumCount,    \* process -> summary turns inserted during its current outermost call
    given,       \* process -> the turn_index values its caller's own calls were given
    faults,      \* the store may fail a statement of the manager in this behaviour
    rpc,         \* position of the request in process_query and its handler
    req,         \* the request: its session id ("none" without one), its query
                 \* and its max_results
    recent,      \* what the last get_recent_history call returned
    histLimit,   \* the limit argument of that call (0 before the first)
    convContext, \* the stored turns whose lines make up conversation_context
    intent,      \* the IntentResult of the request
    ragTrace,    \* stages of FloatChatRAGCore.process_query entered, in order
    ragContext,  \* similarity_score of each context document handed to
                 \* engineer_prompt, in hundredths (none before the retrieval)
    ragGeo,      \* what enhance_query_with_location returned to engineer_prompt
    ragResult,   \* what FloatChatRAGCore.process_query returned or raised
    ragConfidence, \* QueryResult.confidence_score, in ten-thousandths
    resp,        \* the QueryResponse returned for the request
    ragAwaitable \* FloatChatRAGCore.process_query is a coroutine function

eqVars == <<eqpc, eqSql, eqSan, eqSanitized, storeLog, eqResult, eqRaised>>

chatVars == <<chat, stack, ret, ncalls, written, sumCount, given, faults>>

reqVars == <<rpc, req, recent, histLimit, convContext, intent, ragTrace, ragContext, ragGeo, ragResult, ragConfidence, resp, ragAwaitable>>

vars == <<eqVars, chatVars, reqVars>>

(***************************************************************************)
(* Bounds of the model.                                                    *)
(***************************************************************************)
MaxSqlLen == 3      \* atoms of an SQL input after its optional first word
MaxRows == 2        \* rows a store query returns
MaxCalls == 7       \* add_message calls a caller makes in one behaviour
MaxConcCalls == 2
MaxIsoCalls == 1   \* add_message calls of each of two concurrent callers
MaxQueryWords == 2  \* words of a query made from the vocabulary

(***************************************************************************)
(* Atoms.                                                                  *)
(***************************************************************************)
Min(a, b) == IF a < b THEN a ELSE b

IsWs(a) == a \in {" ", "\n"}

\* characters of the class \w: every atom that is a word
IsWord(a) ==
    a \notin {" ", "\n", ";", "(", ")", "-", "/", "*", "'", "=", "\\x41", ",",
               "?", "!", "."}

\* str.upper() on one atom
Upper(a) ==
    CASE a = "select" -> "SELECT"
      [] a = "drop" -> "DROP"
      [] a = "union" -> "UNION"
      [] a = "or" -> "OR"
      [] a = "copy" -> "COPY"
      [] a = "sys" -> "SYS"
      [] a = "x" -> "X"
      [] a = "floats" -> "FLOATS"
      [] OTHER -> a

UpperSeq(s) == [i \in DOMAIN s |-> Upper(s[i])]

RECURSIVE LStrip(_)
LStrip(s) == IF s # <<>> /\ IsWs(Head(s)) THEN LStrip(Tail(s)) ELSE s

RECURSIVE RStrip(_)
RStrip(s) ==
    IF s # <<>> /\ IsWs(s[Len(s)]) THEN RStrip(SubSeq(s, 1, Len(s) - 1)) ELSE s

\* str.strip()
Strip(s) == RStrip(LStrip(s))

\* the rest of a line from its first "\n" on ("." does not match a newline)
RECURSIVE FromNewline(_)
FromNewline(s) ==
    IF s = <<>> \/ Head(s) = "\n" THEN s ELSE FromNewline(Tail(s))

\* re.sub(r'--.*', '', s)
RECURSIVE RemoveLineComments(_)
RemoveLineComments(s) ==
    IF Len(s) < 2 THEN s
    ELSE IF s[1] = "-" /\ s[2] = "-"
         THEN RemoveLineComments(FromNewline(Tail(Tail(s))))
         ELSE <<Head(s)>> \o RemoveLineComments(Tail(s))

\* position of the first "*/" at or after position i (0 when there is none)
CloseAt(s, i) ==
    IF \E k \in i..(Len(s) - 1) : s[k] = "*" /\ s[k + 1] = "/"
    THEN CHOOSE k \in i..(Len(s) - 1) :
            /\ s[k] = "*" /\ s[k + 1] = "/"
            /\ \A j \in i..(k - 1) : ~(s[j] = "*" /\ s[j + 1] = "/")
    ELSE 0

\* re.sub(r'/\*.*?\*/', '', s, flags=re.DOTALL)
RECURSIVE RemoveBlockComments(_)
RemoveBlockComments(s) ==
    IF Len(s) < 2 THEN s
    ELSE IF s[1] = "/" /\ s[2] = "*" /\ CloseAt(s, 3) # 0
         THEN RemoveBlockComments(SubSeq(s, CloseAt(s, 3) + 2, Len(s)))
         ELSE <<Head(s)>> \o RemoveBlockComments(Tail(s))

StripComments(s) == RemoveBlockComments(RemoveLineComments(s))

Count(s, a) == Cardinality({i \in DOMAIN s : s[i] = a})

\* pat occurs in s as a contiguous run starting at position i
MatchAt(pat, s, i) ==
    /\ i + Len(pat) - 1 <= Len(s)
    /\ \A k \in DOMAIN pat : s[i + k - 1] = pat[k]

\* Python's "pat in s"
Contains(pat, s) == \E i \in DOMAIN s : MatchAt(pat, s, i)

\* \b before position i / after position i
BoundaryBefore(s, i) == i = 1 \/ IsWord(s[i - 1]) # IsWord(s[i])

BoundaryAfter(s, i) == i = Len(s) \/ IsWord(s[i + 1]) # IsWord(s[i])

\* re.search(r'\b' + w + r'\b', s) for a word w
HasWord(s, w) ==
    \E i \in DOMAIN s : s[i] = w /\ BoundaryBefore(s, i) /\ BoundaryAfter(s, i)

\* first position after i that holds no whitespace (0 when there is none)
NextNonWs(s, i) ==
    IF \E j \in DOMAIN s : j > i /\ ~IsWs(s[j])
    THEN CHOOSE j \in DOMAIN s :
            /\ j > i /\ ~IsWs(s[j])
            /\ \A k \in DOMAIN s : (k > i /\ k < j) => IsWs(s[k])
    ELSE 0

(***************************************************************************)
(* SQLValidator                                                            *)
(***************************************************************************)
\* the list without DROP
FORBIDDEN_KEYWORDS_NoDrop ==
    << "INSERT", "UPDATE", "DELETE", "CREATE", "ALTER", "TRUNCATE",
       "REPLACE", "MERGE", "CALL", "EXEC", "EXECUTE", "DECLARE", "SET",
       "GRANT", "REVOKE", "COMMIT", "ROLLBACK", "SAVEPOINT", "LOCK" >>

FORBIDDEN_KEYWORDS ==
    << "INSERT", "UPDATE", "DELETE", "DROP", "CREATE", "ALTER", "TRUNCATE",
       "REPLACE", "MERGE", "CALL", "EXEC", "EXECUTE", "DECLARE", "SET",
       "GRANT", "REVOKE", "COMMIT", "ROLLBACK", "SAVEPOINT", "LOCK" >>

\* the names of FORBIDDEN_FUNCTIONS, upper-cased as validate_sql compares them
FORBIDDEN_FUNCTIONS ==
    << <<"XP_CMDSHELL">>, <<"SP_CONFIGURE">>, <<"OPENROWSET">>,
       <<"OPENDATASOURCE">>, <<"PG_READ_FILE">>, <<"PG_LS_DIR">>, <<"COPY">>,
       <<"LOAD_FILE">>, <<"INTO", " ", "OUTFILE">> >>

SYSTEM_NAMES ==
    { "INFORMATION_SCHEMA", "PG_CATALOG", "PG_CLASS", "PG_TABLES", "PG_USER",
      "MYSQL", "PERFORMANCE_SCHEMA", "SYS" }

\* 1 \s* = \s* 1 \b starting at position j
OneEqualsOneAt(s, j) ==
    /\ j # 0 /\ s[j] = "1"
    /\ LET e == NextNonWs(s, j)
       IN  /\ e # 0 /\ s[e] = "="
           /\ LET o == NextNonWs(s, e)
              IN  o # 0 /\ s[o] = "1" /\ BoundaryAfter(s, o)

\* \b w \s+ 1\s*=\s*1 \b
Tautology(s, w) ==
    \E i \in DOMAIN s :
        /\ s[i] = w /\ BoundaryBefore(s, i)
        /\ LET j == NextNonWs(s, i) IN j > i + 1 /\ OneEqualsOneAt(s, j)

\* the injection_patterns of validate_sql, in the order of the list
InjectionPattern(s) ==
    \/ \E i \in DOMAIN s :                        \* ';.*--
          /\ MatchAt(<<"'", ";">>, s, i)
          /\ \E j \in DOMAIN s :
                /\ j > i + 1 /\ MatchAt(<<"-", "-">>, s, j)
                /\ \A k \in DOMAIN s : (k > i + 1 /\ k < j) => s[k] # "\n"
    \/ \E i \in DOMAIN s :                        \* \bunion\s+select\b
          /\ s[i] = "UNION" /\ BoundaryBefore(s, i)
          /\ LET j == NextNonWs(s, i)
             IN  j > i + 1 /\ s[j] = "SELECT" /\ BoundaryAfter(s, j)
    \/ Tautology(s, "OR")                         \* \bor\s+1\s*=\s*1\b
    \/ Tautology(s, "AND")                        \* \band\s+1\s*=\s*1\b
    \/ \E i \in DOMAIN s :                        \* \bor\s+'.*'\s*=\s*'.*'\b
          /\ s[i] = "OR" /\ BoundaryBefore(s, i)
          /\ LET j == NextNonWs(s, i)
             IN  /\ j > i + 1 /\ s[j] = "'"
                 /\ \E q \in DOMAIN s, e \in DOMAIN s, r \in DOMAIN s, t \in DOMAIN s :
                       /\ j < q /\ q < e /\ e < r /\ r < t /\ t < Len(s)
                       /\ s[q] = "'" /\ s[e] = "=" /\ s[r] = "'" /\ s[t] = "'"
                       /\ NextNonWs(s, q) = e /\ NextNonWs(s, e) = r
                       /\ IsWord(s[t + 1])
                       /\ \A k \in DOMAIN s :
                            ((k > j /\ k < q) \/ (k > r /\ k < t)) => s[k] # "\n"
    \/ \E i \in DOMAIN s : s[i] = "\\x41"         \* \\x[0-9a-fA-F]+
    \/ Contains(<<"CHAR", "(">>, s)               \* char\(
    \/ Contains(<<"ASCII", "(">>, s)              \* ascii\(
    \/ \E i \in DOMAIN s :                        \* concat\s*\(
          s[i] = "CONCAT" /\ NextNonWs(s, i) # 0 /\ s[NextNonWs(s, i)] = "("

\* the forbidden keyword that occurs first in the text, whatever its place in the list
FirstForbiddenKeyword_TextOrder(s) ==
    LET at == {i \in DOMAIN s :
                  /\ \E k \in DOMAIN FORBIDDEN_KEYWORDS : s[i] = FORBIDDEN_KEYWORDS[k]
                  /\ BoundaryBefore(s, i) /\ BoundaryAfter(s, i)}
    IN  IF at = {} THEN "" ELSE s[CHOOSE i \in at : \A j \in at : i <= j]

\* the first forbidden keyword, in list order, that occurs as a whole word
FirstForbiddenKeyword(s) ==
    LET hits == {k \in DOMAIN FORBIDDEN_KEYWORDS : HasWord(s, FORBIDDEN_KEYWORDS[k])}
    IN  IF hits = {} THEN "" ELSE
        FORBIDDEN_KEYWORDS[CHOOSE k \in hits : \A h \in hits : k <= h]

FirstForbiddenFunction(s) ==
    LET hits == {k \in DOMAIN FORBIDDEN_FUNCTIONS : Contains(FORBIDDEN_FUNCTIONS[k], s)}
    IN  IF hits = {} THEN 0 ELSE CHOOSE k \in hits : \A h \in hits : k <= h

\* re.search(r';\s*\S', sql_query)
MultipleStatements(s) ==
    \E i \in DOMAIN s : s[i] = ";" /\ NextNonWs(s, i) # 0

Verdict(ok, why, what) == [valid |-> ok, reason |-> why, detail |-> what]

\* SQLValidator.validate_sql: (is_valid, error_message)
validate_sql(sql_query) ==
    IF sql_query = <<>> \/ Strip(sql_query) = <<>>
    THEN Verdict(FALSE, "Empty SQL query", <<>>)
    ELSE
    LET normalized_query == StripComments(Strip(UpperSeq(sql_query)))
    IN  IF normalized_query = <<>> \/ Head(normalized_query) # "SELECT"
        THEN Verdict(FALSE, "Only SELECT statements are allowed", <<>>)
        ELSE IF FirstForbiddenKeyword(normalized_query) # ""
        THEN Verdict(FALSE, "Forbidden keyword detected",
                     <<FirstForbiddenKeyword(normalized_query)>>)
        ELSE IF FirstForbiddenFunction(normalized_query) # 0
        THEN Verdict(FALSE, "Forbidden function detected",
                     FORBIDDEN_FUNCTIONS[FirstForbiddenFunction(normalized_query)])
        ELSE IF InjectionPattern(normalized_query)
        THEN Verdict(FALSE, "Potential SQL injection pattern detected", <<>>)
        ELSE IF \E n \in SYSTEM_NAMES : HasWord(normalized_query, n)
        THEN Verdict(FALSE, "Access to system tables/schemas is not allowed", <<>>)
        ELSE IF Count(normalized_query, "(") # Count(normalized_query, ")")
        THEN Verdict(FALSE, "Unbalanced parentheses in SQL query", <<>>)
        ELSE IF MultipleStatements(sql_query)
        THEN Verdict(FALSE, "Multiple SQL statements are not allowed", <<>>)
        ELSE Verdict(TRUE, "SQL query is valid", <<>>)

\* ' '.join(s.split())
RECURSIVE CollapseWs(_)
CollapseWs(s) ==
    IF s = <<>> THEN s
    ELSE IF IsWs(Head(s))
         THEN IF LStrip(s) = <<>> THEN <<>> ELSE <<" ">> \o CollapseWs(LStrip(s))
         ELSE <<Head(s)>> \o CollapseWs(Tail(s))

\* SQLValidator.sanitize_sql
sanitize_sql(sql_query) ==
    LET joined == CollapseWs(LStrip(StripComments(sql_query)))
    IN  IF joined # <<>> /\ joined[Len(joined)] = ";"
        THEN joined
        ELSE joined \o <<";">>

(***************************************************************************)
(* FloatChatDBManager.execute_query                                        *)
(***************************************************************************)
\* the pieces SQL inputs are built from; a comment bracket is two characters
SqlAlphabet ==
    {"SELECT", "select", "DROP", "x", " ", "\n", ";", "(", ")", "-", "/*", "*/"}

RECURSIVE Flatten(_)
Flatten(s) ==
    IF s = <<>> THEN <<>>
    ELSE (CASE Head(s) = "/*" -> <<"/", "*">>
            [] Head(s) = "*/" -> <<"*", "/">>
            [] OTHER -> <<Head(s)>>) \o Flatten(Tail(s))

SeqsUpTo(n) == UNION {[1..k -> SqlAlphabet] : k \in 0..n}

\* "DROP TABLE floats;"
DropTable == <<"DROP", " ", "TABLE", " ", "floats", ";">>

\* "SELECT * FROM floats; DROP TABLE floats;"
StackedDrop ==
    <<"SELECT", " ", "*", " ", "FROM", " ", "floats", ";", " ">> \o DropTable

\* "SELECT x; DROP TABLE floats; DELETE FROM floats;"
StackedDropDelete ==
    <<"SELECT", " ", "x", ";", " ">> \o DropTable
        \o <<" ", "DELETE", " ", "FROM", " ", "floats", ";">>

\* "select -/**/- x"
SplitLineComment == <<"select", " ", "-", "/", "*", "*", "/", "-", " ", "x">>

\* longer statements given to execute_query
ExampleQueries == {DropTable, StackedDrop, StackedDropDelete, SplitLineComment}

\* the sql_query arguments explored: short texts, bare or after a first
\* SELECT, and the longer examples
SqlInputs ==
    {Flatten(s) : s \in SeqsUpTo(MaxSqlLen)}
        \cup {<<"SELECT">> \o Flatten(s) : s \in SeqsUpTo(MaxSqlLen)}
        \cup ExampleQueries

NoResult == [success |-> FALSE, data |-> <<>>, row_count |-> -1,
             error_message |-> "unset", detail |-> <<>>]

\* QueryExecutionResult(success=False, data=[], row_count=0, error_message=...)
FailureResult(msg, what) ==
    [success |-> FALSE, data |-> <<>>, row_count |-> 0,
     error_message |-> msg, detail |-> what]

\* QueryExecutionResult(success=True, data=data, row_count=len(data)); no error_message
SuccessResult(data) ==
    [success |-> TRUE, data |-> data, row_count |-> Len(data),
     error_message |-> "", detail |-> <<>>]

\* rows -> list of dictionaries, one per fetched row, in order
ConvertRows(rows) == [i \in DOMAIN rows |-> [row |-> rows[i]]]

\* what the store can answer to a statement: a result, or an exception
\* (QueryCanceled is the statement timeout)
StoreOutcomes == {"ok", "QueryCanceled", "SQLAlchemyError", "Exception"}

\* the exception is an instance of sqlalchemy.exc.SQLAlchemyError
IsSQLAlchemyError(outcome) == outcome \in {"QueryCanceled", "SQLAlchemyError"}

\* EQ_Validate without the early return: the failure is only logged
EQ_Validate_NoReturn ==
    /\ eqpc = "validate"
    /\ eqpc' = "sanitize"
    /\ UNCHANGED <<eqResult, eqSql, eqSan, eqSanitized, storeLog, eqRaised>>
    /\ UNCHANGED <<chatVars, reqVars>>

\* execute_query step 1: validate; an invalid query returns at once
EQ_Validate ==
    /\ eqpc = "validate"
    /\ LET v == validate_sql(eqSql)
       IN  IF ~v.valid
           THEN /\ eqResult' = FailureResult("SQL Validation Error", <<v.reason, v.detail>>)
                /\ eqpc' = "done"
           ELSE /\ eqpc' = "sanitize"
                /\ UNCHANGED eqResult
    /\ UNCHANGED <<eqSql, eqSan, eqSanitized, storeLog, eqRaised>>
    /\ UNCHANGED <<chatVars, reqVars>>

\* execute_query step 2: sanitize
EQ_Sanitize ==
    /\ eqpc = "sanitize"
    /\ eqSan' = sanitize_sql(eqSql)
    /\ eqSanitized' = TRUE
    /\ eqpc' = "timeout"
    /\ UNCHANGED <<eqSql, storeLog, eqResult, eqRaised>>
    /\ UNCHANGED <<chatVars, reqVars>>

\* EQ_Except without the "except Exception" clause
EQ_Except_SQLOnly(outcome) ==
    IF IsSQLAlchemyError(outcome) THEN "Database error" ELSE ""

\* the except clauses of execute_query: "except SQLAlchemyError" and
\* "except Exception"; "" when neither clause catches the exception
EQ_Except(outcome) ==
    IF IsSQLAlchemyError(outcome) THEN "Database error"
    ELSE IF outcome = "Exception" THEN "Unexpected error"
    ELSE ""

\* an exception raised inside the try block of execute_query
EQ_Raise(outcome) ==
    /\ eqpc' = "done"
    /\ IF EQ_Except(outcome) # ""
       THEN eqResult' = FailureResult(EQ_Except(outcome), <<>>) /\ UNCHANGED eqRaised
       ELSE eqRaised' = TRUE /\ UNCHANGED eqResult

\* execute_query step 3a: SET statement_timeout on the session
EQ_SetTimeout ==
    /\ eqpc = "timeout"
    /\ storeLog' = Append(storeLog, [kind |-> "timeout", sql |-> <<>>])
    /\ \E outcome \in StoreOutcomes :
          IF outcome = "ok"
          THEN eqpc' = "query" /\ UNCHANGED <<eqResult, eqRaised>>
          ELSE EQ_Raise(outcome)
    /\ UNCHANGED <<eqSql, eqSan, eqSanitized>>
    /\ UNCHANGED <<chatVars, reqVars>>

\* execute_query step 3b: the main query, fetchall and the row conversion
EQ_Execute ==
    /\ eqpc = "query"
    /\ storeLog' = Append(storeLog, [kind |-> "query", sql |-> eqSan])
    /\ \E outcome \in StoreOutcomes :
          IF outcome = "ok"
          THEN /\ \E n \in 0..MaxRows :
                    eqResult' = SuccessResult(ConvertRows([i \in 1..n |-> i]))
               /\ eqpc' = "done"
               /\ UNCHANGED eqRaised
          ELSE EQ_Raise(outcome)
    /\ UNCHANGED <<eqSql, eqSan, eqSanitized>>
    /\ UNCHANGED <<chatVars, reqVars>>

(***************************************************************************)
(* ChatHistoryManager                                                      *)
(*                                                                         *)
(* A turn is [turn_index, role, len]: len is the length of the stored      *)
(* message in characters.  The tokenizer is external; count_tokens is      *)
(* modelled by the approximation the code itself falls back to, 4          *)
(* characters per token.                                                   *)
(*                                                                         *)
(* Every helper of the manager opens its own session on the pool of the    *)
(* FloatChatDBManager (pool_size connections, no overflow).  A session     *)
(* takes a connection at its first statement and gives it back at commit   *)
(* or close; optimize_conversation_history keeps the one of its SELECT     *)
(* while add_message stores the summary.  A statement that finds no free   *)
(* connection fails with the pool's TimeoutError, a SQLAlchemyError.       *)
(***************************************************************************)
Sessions == {"s1", "s2"}

Procs == {"p1", "p2"}

max_tokens_per_message == 1000

max_session_tokens == 4000

DefaultMaxMessages == 20

PoolSize == 20

CharsPerToken == 4

TruncationMarkerLen == 15    \* len("... [truncated]")

SummaryPrefixLen == 31       \* len("Previous conversation summary: ")

ExcerptLen == 100            \* msg['message'][:100]

SummarySeparatorsLen == 6    \* ": " and "... " around one excerpt

SummaryBatch == 5            \* LIMIT 5

ShortLen == 1600             \* a message of 400 tokens

LongLen == 6000              \* a message of 1500 tokens, over the ceiling

CallerLens == {ShortLen, LongLen}

RoleLen(role) ==
    CASE role = "user" -> 4 [] role = "assistant" -> 9 [] role = "system" -> 6

\* ChatHistoryManager.count_tokens
count_tokens(len) == len \div CharsPerToken

\* add_message: message[:max_tokens_per_message * 4] + "... [truncated]"
StoredLen(len) ==
    IF count_tokens(len) > max_tokens_per_message
    THEN Min(len, max_tokens_per_message * CharsPerToken) + TruncationMarkerLen
    ELSE len

Indices(turns) == {t.turn_index : t \in turns}

RECURSIVE SumTokens(_)
SumTokens(turns) ==
    IF turns = {} THEN 0
    ELSE CHOOSE total \in {count_tokens(t.len) + SumTokens(turns \ {t}) :
                               t \in {CHOOSE u \in turns : TRUE}} : TRUE

\* ChatHistoryManager.get_session_token_count; 0 on a store error
get_session_token_count(turns, ok) == IF ok THEN SumTokens(turns) ELSE 0

\* ChatHistoryManager.get_next_turn_index with MAX(turn_index) replaced by COUNT(*)
get_next_turn_index_count(turns, ok) ==
    IF ok THEN Cardinality(turns) + 1 ELSE 1

\* ChatHistoryManager.get_next_turn_index; 1 on a store error
get_next_turn_index(turns, ok) ==
    IF ~ok THEN 1
    ELSE IF turns = {} THEN 1
    ELSE (CHOOSE i \in Indices(turns) : \A j \in Indices(turns) : j <= i) + 1

\* ORDER BY turn_index DESC LIMIT n: the n turns with the highest turn_index
NewestTurns(turns, n) ==
    {t \in turns : Cardinality({u \in turns : u.turn_index > t.turn_index}) < n}

\* ORDER BY turn_index LIMIT n OFFSET 1: the oldest turn skipped
OldestTurns_Offset(turns, n) ==
    {t \in turns :
        LET older == Cardinality({u \in turns : u.turn_index < t.turn_index})
        IN  1 <= older /\ older < n + 1}

\* ORDER BY turn_index LIMIT n: the n turns with the lowest turn_index
OldestTurns(turns, n) ==
    {t \in turns : Cardinality({u \in turns : u.turn_index < t.turn_index}) < n}

\* optimize_conversation_history: the length of summary_text
RECURSIVE SummaryLen(_)
SummaryLen(old) ==
    IF old = {} THEN SummaryPrefixLen
    ELSE LET t == CHOOSE u \in old : TRUE
         IN  RoleLen(t.role) + Min(t.len, ExcerptLen) + SummarySeparatorsLen
                + SummaryLen(old \ {t})

\* one running call of the manager
Frame(fn, pc, s, role, len) ==
    [fn |-> fn, pc |-> pc, session |-> s, role |-> role, len |-> len,
     next |-> 0, old |-> {}, n |-> 0, seen |-> {}]

Top(p) == stack[p][Len(stack[p])]

Running(p, fn, pc) ==
    stack[p] # <<>> /\ Top(p).fn = fn /\ Top(p).pc = pc

\* connections of the pool of p's server process that sessions of
\* optimize_conversation_history hold across the nested add_message
Held(p) ==
    Cardinality({i \in DOMAIN stack[p] :
                    stack[p][i].fn = "add_message" /\ stack[p][i].pc = "delete"})

\* a pool that never runs out of connections
CanConnect_Unbounded(p) == TRUE

\* a session of p gets a connection for its statement
CanConnect(p) == Held(p) < PoolSize

SetTop(p, f) == [stack EXCEPT ![p] = [@ EXCEPT ![Len(@)] = f]]

\* no outermost call of the process has returned yet / one is running;
\* a return is <<function, value returned, an exception left the function>>
NoReturn == <<"none", FALSE, FALSE>>

Pending == <<"running", FALSE, FALSE>>

\* the innermost call of p returns r; only an outermost call has a caller
\* that sees r (optimize_conversation_history ignores what add_message returns)
Return(p, r) ==
    /\ stack' = [stack EXCEPT ![p] = SubSeq(@, 1, Len(@) - 1)]
    /\ ret' = IF Len(stack[p]) = 1
              THEN [ret EXCEPT ![p] = <<stack[p][1].fn, r, FALSE>>] ELSE ret

\* what a statement of a session of p meets: the pool's TimeoutError without
\* a free connection, else the store's answer
Answers(p) ==
    IF ~CanConnect(p) THEN {"TimeoutError"}
    ELSE IF faults THEN {"ok", "OperationalError"}
    ELSE {"ok"}

\* what a statement meets on a connection its session already holds
HeldAnswers == IF faults THEN {"ok", "OperationalError"} ELSE {"ok"}

\* "except exc.SQLAlchemyError" narrowed to the constraint violations
CatchesStoreError_IntegrityOnly(e) == e = "IntegrityError"

\* "except exc.SQLAlchemyError" of every method of the manager
CatchesStoreError(e) == e \in {"IntegrityError", "OperationalError", "TimeoutError"}

\* QueryResponse, its fields that the paths set differently, and the
\* message that is stored as the assistant turn
Response(ok, type, sql, data, rows, err, reply) ==
    [success |-> ok, response_type |-> type, sql_query |-> sql, data |-> data,
     row_count |-> rows, error_message |-> err, reply |-> reply]

NoResponse == Response(FALSE, "none", <<>>, <<>>, 0, "", 0)

\* process_query, lines 396-409: the response of "except Exception"
ErrorResponse ==
    Response(FALSE, "data_query", <<>>, <<>>, 0, "Internal server error", 0)

\* the steps of a request during which its handler stores the turns
PersistPcs == {"save_user", "save_assistant", "cleanup"}

\* an exception that no method of the manager catches leaves the outermost
\* call of p; in a request it reaches "except Exception" of process_query
Escape(p) ==
    /\ stack' = [stack EXCEPT ![p] = <<>>]
    /\ ret' = [ret EXCEPT ![p] = <<stack[p][1].fn, FALSE, TRUE>>]
    /\ IF p = "p1" /\ rpc \in PersistPcs
       THEN /\ resp' = ErrorResponse
            /\ rpc' = "done"
            /\ UNCHANGED <<req, recent, histLimit, convContext, ragGeo, intent, ragTrace, ragContext, ragResult, ragConfidence, ragAwaitable>>
       ELSE UNCHANGED reqVars

\* add_message, lines 64-81: count, truncate, open the session, read the
\* next turn index in a session of its own
AM_ReadMax(p) ==
    /\ Running(p, "add_message", "readmax")
    /\ \E e \in Answers(p) :
          LET f == Top(p)
          IN  IF e = "ok" \/ CatchesStoreError(e)
              THEN /\ stack' = SetTop(p, [f EXCEPT
                           !.len = StoredLen(f.len),
                           !.next = get_next_turn_index(chat[f.session], e = "ok"),
                           !.pc = "insert"])
                   /\ UNCHANGED <<ret, reqVars>>
              ELSE Escape(p)
    /\ UNCHANGED <<chat, ncalls, written, sumCount, given, faults>>
    /\ UNCHANGED eqVars

\* add_message, lines 83-101: INSERT and commit.  The insert fails without a
\* connection and on the primary key (session_id, turn_index); add_message
\* then returns False.
AM_Insert(p) ==
    /\ Running(p, "add_message", "insert")
    /\ \E a \in Answers(p) :
          LET f == Top(p)
              e == IF a = "ok" /\ f.next \in Indices(chat[f.session])
                   THEN "IntegrityError" ELSE a
          IN  IF e = "ok"
              THEN /\ chat' = [chat EXCEPT ![f.session] =
                                 @ \cup {[turn_index |-> f.next, role |-> f.role, len |-> f.len]}]
                   /\ written' = [written EXCEPT ![f.session] = Append(@, f.next)]
                   /\ sumCount' = IF f.role = "system"
                                  THEN [sumCount EXCEPT ![p] = @ + 1] ELSE sumCount
                   /\ given' = IF Len(stack[p]) = 1
                               THEN [given EXCEPT ![p] = Append(@, f.next)] ELSE given
                   /\ stack' = SetTop(p, [f EXCEPT !.pc = "count"])
                   /\ UNCHANGED <<ret, reqVars>>
              ELSE /\ IF CatchesStoreError(e)
                      THEN Return(p, FALSE) /\ UNCHANGED reqVars
                      ELSE Escape(p)
                   /\ UNCHANGED <<chat, written, sumCount, given>>
    /\ UNCHANGED <<ncalls, faults, eqVars>>

\* optimize_conversation_history, lines 362-365: nothing to do at or under
\* the ceiling; add_message then returns True
OPT_Count(p) ==
    /\ Running(p, "add_message", "count")
    /\ \E e \in Answers(p) :
          LET f == Top(p)
          IN  IF e = "ok" \/ CatchesStoreError(e)
              THEN /\ IF get_session_token_count(chat[f.session], e = "ok")
                            <= max_session_tokens
                      THEN Return(p, TRUE)
                      ELSE stack' = SetTop(p, [f EXCEPT !.pc = "select"]) /\ UNCHANGED ret
                   /\ UNCHANGED reqVars
              ELSE Escape(p)
    /\ UNCHANGED <<chat, ncalls, written, sumCount, given, faults>>
    /\ UNCHANGED eqVars

\* optimize_conversation_history, lines 370-391: select the oldest turns and
\* call add_message with their summary, the session of the SELECT still open
OPT_Select(p) ==
    /\ Running(p, "add_message", "select")
    /\ \E e \in Answers(p) :
          LET f == Top(p)
              old_messages == OldestTurns(chat[f.session], SummaryBatch)
          IN  IF e = "ok" /\ old_messages # {}
              THEN /\ stack' = [stack EXCEPT ![p] =
                         Append([@ EXCEPT ![Len(@)] =
                                    [f EXCEPT !.pc = "delete", !.old = old_messages,
                                              !.seen = chat[f.session]]],
                                Frame("add_message", "readmax", f.session, "system",
                                      SummaryLen(old_messages)))]
                   /\ UNCHANGED <<ret, reqVars>>
              ELSE IF e = "ok" \/ CatchesStoreError(e)
                   THEN Return(p, TRUE) /\ UNCHANGED reqVars
                   ELSE Escape(p)
    /\ UNCHANGED <<chat, ncalls, written, sumCount, given, faults>>
    /\ UNCHANGED eqVars

\* the DELETE of optimize_conversation_history without its session_id
\* condition
OPT_Delete_AllSessions(p) ==
    /\ Running(p, "add_message", "delete")
    /\ \E e \in HeldAnswers :
          LET f == Top(p)
          IN  IF e = "ok"
              THEN /\ chat' = [s \in Sessions |->
                                 {t \in chat[s] : t.turn_index \notin Indices(f.old)}]
                   /\ Return(p, TRUE)
                   /\ UNCHANGED reqVars
              ELSE /\ IF CatchesStoreError(e)
                      THEN Return(p, TRUE) /\ UNCHANGED reqVars
                      ELSE Escape(p)
                   /\ UNCHANGED chat
    /\ UNCHANGED <<ncalls, written, sumCount, given, faults>>
    /\ UNCHANGED eqVars

\* optimize_conversation_history, lines 393-408: delete the summarized turns
\* and commit; add_message then returns True
OPT_Delete(p) ==
    /\ Running(p, "add_message", "delete")
    /\ \E e \in HeldAnswers :
          LET f == Top(p)
          IN  IF e = "ok"
              THEN /\ chat' = [chat EXCEPT ![f.session] =
                                 {t \in @ : t.turn_index \notin Indices(f.old)}]
                   /\ Return(p, TRUE)
                   /\ UNCHANGED reqVars
              ELSE /\ IF CatchesStoreError(e)
                      THEN Return(p, TRUE) /\ UNCHANGED reqVars
                      ELSE Escape(p)
                   /\ UNCHANGED chat
    /\ UNCHANGED <<ncalls, written, sumCount, given, faults>>
    /\ UNCHANGED eqVars

\* cleanup_old_messages, lines 241-246: get_message_count in a session of
\* its own (0 on a store error)
CL_Count(p) ==
    /\ Running(p, "cleanup", "count")
    /\ \E e \in Answers(p) :
          LET f == Top(p)
              count == IF e = "ok" THEN Cardinality(chat[f.session]) ELSE 0
          IN  IF e = "ok" \/ CatchesStoreError(e)
              THEN /\ IF count <= f.len
                      THEN Return(p, TRUE)
                      ELSE stack' = SetTop(p, [f EXCEPT !.pc = "delete", !.n = count - f.len])
                           /\ UNCHANGED ret
                   /\ UNCHANGED reqVars
              ELSE Escape(p)
    /\ UNCHANGED <<chat, ncalls, written, sumCount, given, faults>>
    /\ UNCHANGED eqVars

\* cleanup_old_messages, lines 248-269: delete the delete_count oldest turns
CL_Delete(p) ==
    /\ Running(p, "cleanup", "delete")
    /\ \E e \in Answers(p) :
          LET f == Top(p)
          IN  IF e = "ok"
              THEN /\ chat' = [chat EXCEPT ![f.session] = @ \ OldestTurns(@, f.n)]
                   /\ Return(p, TRUE)
                   /\ UNCHANGED reqVars
              ELSE /\ IF CatchesStoreError(e)
                      THEN Return(p, FALSE) /\ UNCHANGED reqVars
                      ELSE Escape(p)
                   /\ UNCHANGED chat
    /\ UNCHANGED <<ncalls, written, sumCount, given, faults>>
    /\ UNCHANGED eqVars

\* a caller calls add_message(session_id, role, message): the callers of the
\* repository store a user turn, then an assistant turn
EnterAddMessage(p, s, len) ==
    /\ stack[p] = <<>>
    /\ stack' = [stack EXCEPT ![p] =
          <<Frame("add_message", "readmax", s,
                  IF ncalls[p] % 2 = 0 THEN "user" ELSE "assistant", len)>>]
    /\ ncalls' = [ncalls EXCEPT ![p] = @ + 1]
    /\ sumCount' = [sumCount EXCEPT ![p] = 0]
    /\ ret' = [ret EXCEPT ![p] = Pending]
    /\ UNCHANGED <<chat, written, given, faults>>

\* add_message called by a caller that is not a request of this model
CallAddMessage(p, s, len) ==
    /\ EnterAddMessage(p, s, len)
    /\ UNCHANGED <<eqVars, reqVars>>

\* a caller calls cleanup_old_messages(session_id, max_messages)
EnterCleanup(p, s, max_messages) ==
    /\ stack[p] = <<>>
    /\ stack' = [stack EXCEPT ![p] = <<Frame("cleanup", "count", s, "", max_messages)>>]
    /\ ret' = [ret EXCEPT ![p] = Pending]
    /\ UNCHANGED <<chat, ncalls, written, sumCount, given, faults>>

\* cleanup_old_messages called by a caller that is not a request of this model
CallCleanup(p, s, max_messages) ==
    /\ EnterCleanup(p, s, max_messages)
    /\ UNCHANGED <<eqVars, reqVars>>

(***************************************************************************)
(* Text.  A Python string is modelled as the sequence of its characters;   *)
(* the queries of the model hold no newline.                               *)
(***************************************************************************)
Chars(s) == [i \in 1..Len(s) |-> SubSeq(s, i, i)]

UpperCase == Chars("ABCDEFGHIJKLMNOPQRSTUVWXYZ")

LowerCase == Chars("abcdefghijklmnopqrstuvwxyz")

\* str.lower()
lower(t) ==
    [i \in DOMAIN t |->
        IF \E k \in DOMAIN UpperCase : UpperCase[k] = t[i]
        THEN LowerCase[CHOOSE k \in DOMAIN UpperCase : UpperCase[k] = t[i]]
        ELSE t[i]]

\* len(s.split())
WordCount(t) ==
    Cardinality({i \in DOMAIN t : ~IsWs(t[i]) /\ (i = 1 \/ IsWs(t[i - 1]))})

(***************************************************************************)
(* The regular expressions of IntentDetectionService.  A pattern is        *)
(*   Full(alts)        ^(a|b|...)$                                         *)
(*   WordChars(m, n)   ^\w{m,n}$                                           *)
(*   Search(parts)     parts joined by .* , each part G(alts) = (a|b|...)  *)
(*                     or W(alts) = \b(a|b|...)\b                          *)
(* and an alternative is a sequence of literals joined by .* .             *)
(***************************************************************************)
Lits(alt) == [i \in DOMAIN alt |-> Chars(alt[i])]

G(alts) == [wb |-> FALSE, wa |-> FALSE, alts |-> {Lits(a) : a \in alts}]

W(alts) == [wb |-> TRUE, wa |-> TRUE, alts |-> {Lits(a) : a \in alts}]

Search(parts) == [kind |-> "search", parts |-> parts]

Full(alts) == [kind |-> "full", alts |-> {Lits(a) : a \in alts}]

WordChars(min, max) == [kind |-> "word", min |-> min, max |-> max]

\* the positions where a match of the literals lits, joined by .*, can end
\* when it starts at position s of t
RECURSIVE LitEnds(_, _, _)
LitEnds(lits, t, s) ==
    LET e == s + Len(Head(lits)) - 1
    IN  IF ~MatchAt(Head(lits), t, s) THEN {}
        ELSE IF Len(lits) = 1 THEN {e}
        ELSE UNION {LitEnds(Tail(lits), t, u) : u \in (e + 1)..Len(t)}

\* <<start, end>> of every match of one part in t (every literal starts and
\* ends with a word character, so \b asks for a non-word neighbour)
PartSpans(part, t) ==
    UNION {{<<s, e>> : e \in {x \in LitEnds(alt, t, s) :
                                 part.wa => BoundaryAfter(t, x)}} :
              s \in {i \in DOMAIN t : part.wb => BoundaryBefore(t, i)},
              alt \in part.alts}

\* the parts match one after another, the first at or after position from
RECURSIVE MatchParts(_, _, _)
MatchParts(parts, t, from) ==
    \/ parts = <<>>
    \/ \E se \in PartSpans(Head(parts), t) :
          se[1] >= from /\ MatchParts(Tail(parts), t, se[2] + 1)

\* re.search(pattern, t) is not None
re_search(p, t) ==
    CASE p.kind = "word" ->
            Len(t) \in p.min..p.max /\ \A i \in DOMAIN t : IsWord(t[i])
      [] p.kind = "full" -> \E alt \in p.alts : Len(t) \in LitEnds(alt, t, 1)
      [] OTHER -> MatchParts(p.parts, t, 1)

(***************************************************************************)
(* IntentDetectionService (intent_service.py)                              *)
(***************************************************************************)
intent_patterns ==
    [conversational |-> <<
        \* ^(hi|hello|hey|thanks|thank you|ok|okay|good|great|awesome|cool)$
        Full({<<"hi">>, <<"hello">>, <<"hey">>, <<"thanks">>,
              <<"thank you">>, <<"ok">>, <<"okay">>, <<"good">>, <<"great">>,
              <<"awesome">>, <<"cool">>}),
        \* ^(how are you|what.*your name|who are you)$
        Full({<<"how are you">>, <<"what", "your name">>, <<"who are you">>}),
        \* ^(bye|goodbye|see you|talk.*later)$
        Full({<<"bye">>, <<"goodbye">>, <<"see you">>, <<"talk", "later">>}),
        \* ^\w{1,10}$
        WordChars(1, 10) >>,
     data_query |-> <<
        \* (show|display|find|get|fetch|retrieve|list|give me).*\b(data|measurements|values|records|results)\b
        Search(<<G({<<"show">>, <<"display">>, <<"find">>, <<"get">>, <<"fetch">>,
                   <<"retrieve">>, <<"list">>, <<"give me">>}),
                 W({<<"data">>, <<"measurements">>, <<"values">>, <<"records">>,
                   <<"results">>})>>),
        \* (temperature|salinity|pressure|depth).*\b(from|in|at|of)\b
        Search(<<G({<<"temperature">>, <<"salinity">>, <<"pressure">>, <<"depth">>}),
                 W({<<"from">>, <<"in">>, <<"at">>, <<"of">>})>>),
        \* (how many|count|number of).*\b(floats|profiles|measurements)\b
        Search(<<G({<<"how many">>, <<"count">>, <<"number of">>}),
                 W({<<"floats">>, <<"profiles">>, <<"measurements">>})>>),
        \* (what|which).*\b(temperature|salinity|pressure)\b
        Search(<<G({<<"what">>, <<"which">>}),
                 W({<<"temperature">>, <<"salinity">>, <<"pressure">>})>>),
        \* (average|mean|max|maximum|min|minimum).*\b(temperature|salinity|pressure)\b
        Search(<<G({<<"average">>, <<"mean">>, <<"max">>, <<"maximum">>, <<"min">>,
                   <<"minimum">>}),
                 W({<<"temperature">>, <<"salinity">>, <<"pressure">>})>>) >>,
     visualization |-> <<
        \* \b(plot|graph|chart|visualize|draw)\b
        Search(<<W({<<"plot">>, <<"graph">>, <<"chart">>, <<"visualize">>,
                   <<"draw">>})>>),
        \* \b(line chart|bar chart|scatter plot|histogram|pie chart)\b
        Search(<<W({<<"line chart">>, <<"bar chart">>, <<"scatter plot">>,
                   <<"histogram">>, <<"pie chart">>})>>),
        \* \b(trend|trends|over time|time series)\b
        Search(<<W({<<"trend">>, <<"trends">>, <<"over time">>, <<"time series">>})>>),
        \* \b(1d|2d|3d|one dimension|two dimension|three dimension)\b
        Search(<<W({<<"1d">>, <<"2d">>, <<"3d">>, <<"one dimension">>,
                   <<"two dimension">>, <<"three dimension">>})>>),
        \* (show.*trend|plot.*against|graph.*vs|chart.*over)
        Search(<<G({<<"show", "trend">>, <<"plot", "against">>, <<"graph", "vs">>,
                   <<"chart", "over">>})>>),
        \* (correlation|relationship|pattern).*\b(between|of)\b
        Search(<<G({<<"correlation">>, <<"relationship">>, <<"pattern">>}),
                 W({<<"between">>, <<"of">>})>>) >>,
     map |-> <<
        \* \b(map|location|geographic|spatial|coordinate)\b
        Search(<<W({<<"map">>, <<"location">>, <<"geographic">>, <<"spatial">>,
                   <<"coordinate">>})>>),
        \* \b(where|location|position|near|around|close to)\b
        Search(<<W({<<"where">>, <<"location">>, <<"position">>, <<"near">>,
                   <<"around">>, <<"close to">>})>>),
        \* \b(latitude|longitude|lat|lon|coordinates)\b
        Search(<<W({<<"latitude">>, <<"longitude">>, <<"lat">>, <<"lon">>,
                   <<"coordinates">>})>>),
        \* (show.*map|plot.*map|display.*location)
        Search(<<G({<<"show", "map">>, <<"plot", "map">>,
                   <<"display", "location">>})>>),
        \* (near|around|close to|within.*km|within.*miles)
        Search(<<G({<<"near">>, <<"around">>, <<"close to">>, <<"within", "km">>,
                   <<"within", "miles">>})>>) >>,
     summary |-> <<
        \* \b(summary|summarize|overview|statistics|stats)\b
        Search(<<W({<<"summary">>, <<"summarize">>, <<"overview">>,
                   <<"statistics">>, <<"stats">>})>>),
        \* \b(total|overall|general|aggregate)\b
        Search(<<W({<<"total">>, <<"overall">>, <<"general">>, <<"aggregate">>})>>),
        \* (what.*overall|give.*summary|provide.*overview)
        Search(<<G({<<"what", "overall">>, <<"give", "summary">>,
                   <<"provide", "overview">>})>>),
        \* (describe|explain).*\b(data|dataset|measurements)\b
        Search(<<G({<<"describe">>, <<"explain">>}),
                 W({<<"data">>, <<"dataset">>, <<"measurements">>})>>) >>,
     comparison |-> <<
        \* \b(compare|comparison|vs|versus|difference|differences)\b
        Search(<<W({<<"compare">>, <<"comparison">>, <<"vs">>, <<"versus">>,
                   <<"difference">>, <<"differences">>})>>),
        \* \b(higher|lower|greater|less|more|better|worse)\b.*\b(than|compared to)\b
        Search(<<W({<<"higher">>, <<"lower">>, <<"greater">>, <<"less">>,
                   <<"more">>, <<"better">>, <<"worse">>}),
                 W({<<"than">>, <<"compared to">>})>>),
        \* (which.*better|which.*higher|which.*more)
        Search(<<G({<<"which", "better">>, <<"which", "higher">>,
                   <<"which", "more">>})>>),
        \* (float.*vs.*float|region.*vs.*region)
        Search(<<G({<<"float", "vs", "float">>, <<"region", "vs", "region">>})>>) >>,
     help |-> <<
        \* \b(help|how|what can|capabilities|features)\b
        Search(<<W({<<"help">>, <<"how">>, <<"what can">>, <<"capabilities">>,
                   <<"features">>})>>),
        \* (how to|how do|what does|can you)
        Search(<<G({<<"how to">>, <<"how do">>, <<"what does">>, <<"can you">>})>>),
        \* (instructions|guide|tutorial|example)
        Search(<<G({<<"instructions">>, <<"guide">>, <<"tutorial">>, <<"example">>})>>) >>]

data_requiring_patterns ==
    <<
        \* \b(temperature|salinity|pressure|depth|measurement)\b
        Search(<<W({<<"temperature">>, <<"salinity">>, <<"pressure">>, <<"depth">>,
                   <<"measurement">>})>>),
        \* \b(float|profile|cycle|data)\b
        Search(<<W({<<"float">>, <<"profile">>, <<"cycle">>, <<"data">>})>>),
        \* \b(show|display|find|plot|chart|map)\b
        Search(<<W({<<"show">>, <<"display">>, <<"find">>, <<"plot">>, <<"chart">>,
                   <<"map">>})>>),
        \* \b(average|mean|max|min|count|total)\b
        Search(<<W({<<"average">>, <<"mean">>, <<"max">>, <<"min">>, <<"count">>,
                   <<"total">>})>>) >>

\* visualization_patterns: each type with its pattern, in the order of the dict
visualization_patterns ==
    << \* \b(line|trend|time series|over time)\b
       <<"line",
         Search(<<W({<<"line">>, <<"trend">>, <<"time series">>, <<"over time">>})>>)>>,
       \* \b(bar|column|histogram|frequency)\b
       <<"bar",
         Search(<<W({<<"bar">>, <<"column">>, <<"histogram">>, <<"frequency">>})>>)>>,
       \* \b(scatter|correlation|relationship|plot.*vs)\b
       <<"scatter",
         Search(<<W({<<"scatter">>, <<"correlation">>, <<"relationship">>,
                    <<"plot", "vs">>})>>)>>,
       \* \b(heatmap|heat map|density|intensity)\b
       <<"heatmap",
         Search(<<W({<<"heatmap">>, <<"heat map">>, <<"density">>, <<"intensity">>})>>)>>,
       \* \b(pie|percentage|proportion|distribution)\b
       <<"pie",
         Search(<<W({<<"pie">>, <<"percentage">>, <<"proportion">>,
                    <<"distribution">>})>>)>>,
       \* \b(3d|three dimension|surface|contour)\b
       <<"3d",
         Search(<<W({<<"3d">>, <<"three dimension">>, <<"surface">>, <<"contour">>})>>)>> >>


\* the response types in the order of the dict intent_patterns
ResponseTypeOrder ==
    <<"conversational", "data_query", "visualization", "map", "summary",
      "comparison", "help">>

\* score of each response type: how many of its patterns match
intent_scores(query_lower) ==
    [k \in DOMAIN ResponseTypeOrder |->
        LET patterns == intent_patterns[ResponseTypeOrder[k]]
        IN  Cardinality({i \in DOMAIN patterns : re_search(patterns[i], query_lower)})]

\* any(re.search(p, query_lower) for p in self.data_requiring_patterns)
RequiresData(query_lower) ==
    \E i \in DOMAIN data_requiring_patterns :
        re_search(data_requiring_patterns[i], query_lower)

\* the first response type with a match, whatever the scores
BestIntent_FirstMatched(scores) ==
    CHOOSE k \in DOMAIN scores :
        scores[k] > 0 /\ \A j \in DOMAIN scores : scores[j] > 0 => k <= j

\* max(intent_scores.keys(), key=score): the first of the highest scores
BestIntent(scores) ==
    CHOOSE k \in DOMAIN scores :
        /\ scores[k] > 0
        /\ \A j \in DOMAIN scores :
              scores[j] < scores[k] \/ (scores[j] = scores[k] /\ k <= j)

\* the fallback, also when a pattern matched
PrimaryIntent_FallbackOnly(query_lower, scores) ==
    IF WordCount(query_lower) <= 3 /\ ~RequiresData(query_lower)
    THEN <<"conversational", 70>>
    ELSE <<"data_query", 50>>

\* analyze_intent lines 133-147: <<primary_intent, confidence>> before the
\* promotion; confidence in hundredths
PrimaryIntent(query_lower, scores) ==
    IF \A k \in DOMAIN scores : scores[k] = 0
    THEN IF WordCount(query_lower) <= 3 /\ ~RequiresData(query_lower)
         THEN <<"conversational", 70>>
         ELSE <<"data_query", 50>>
    ELSE <<ResponseTypeOrder[BestIntent(scores)],
           Min(90, 30 + 20 * scores[BestIntent(scores)])>>

\* analyze_intent lines 158-172
VisualizationType(primary_intent, query_lower, scores) ==
    IF primary_intent = "visualization"
    THEN LET hits == {k \in DOMAIN visualization_patterns :
                         re_search(visualization_patterns[k][2], query_lower)}
         IN  IF hits # {}
             THEN visualization_patterns[CHOOSE k \in hits : \A h \in hits : k <= h][1]
             ELSE IF scores[6] > 0 THEN "scatter" ELSE "line"
    ELSE IF primary_intent = "map" THEN "map"
    ELSE "None"

\* the IntentResult with the last declared of the highest scores selected
IntentResult_LastTied(query_lower, scores) ==
    LET last == CHOOSE k \in DOMAIN scores :
                    \A j \in DOMAIN scores :
                        scores[j] < scores[k] \/ (scores[j] = scores[k] /\ j <= k)
        primary == IF scores[last] = 0
                   THEN PrimaryIntent(query_lower, scores)
                   ELSE <<ResponseTypeOrder[last], Min(90, 30 + 20 * scores[last])>>
        promoted == primary[1] = "comparison" /\ scores[3] > 0
        primary_intent == IF promoted THEN "visualization" ELSE primary[1]
    IN  [response_type |-> primary_intent,
         confidence |-> IF promoted THEN primary[2] + 10 ELSE primary[2],
         visualization_type |-> VisualizationType(primary_intent, query_lower, scores),
         requires_data |-> RequiresData(query_lower)]

\* analyze_intent lines 149-183: the promotion of a comparison and the
\* IntentResult
IntentResult(query_lower, scores) ==
    LET primary == PrimaryIntent(query_lower, scores)
        promoted == primary[1] = "comparison" /\ scores[3] > 0
        primary_intent == IF promoted THEN "visualization" ELSE primary[1]
    IN  [response_type |-> primary_intent,
         confidence |-> IF promoted THEN primary[2] + 10 ELSE primary[2],
         visualization_type |-> VisualizationType(primary_intent, query_lower, scores),
         requires_data |-> RequiresData(query_lower)]

\* IntentDetectionService.analyze_intent (chat_history is not used);
\* query_lower and the scores are computed once
analyze_intent(user_query) ==
    CHOOSE result \in
        {IntentResult(query_lower, scores) :
            <<query_lower, scores>> \in
                {<<t, intent_scores(t)>> : t \in {Strip(lower(Chars(user_query)))}}} :
        TRUE

(***************************************************************************)
(* GeographicService (geocoding_service.py)                                *)
(***************************************************************************)
\* the keys of OCEANOGRAPHIC_LOCATIONS, in the order of the dict
OCEANOGRAPHIC_LOCATIONS ==
    << "mumbai", "pacific", "atlantic", "indian ocean", "bay of bengal",
       "arabian sea", "gulf of mexico", "mediterranean", "north sea",
       "california", "alaska", "japan", "australia", "antarctica",
       "greenland", "hawaii", "tropical pacific", "north atlantic",
       "south atlantic", "tropical indian", "south pacific" >>

\* the characters of each key
LocationNames ==
    [k \in DOMAIN OCEANOGRAPHIC_LOCATIONS |-> Chars(OCEANOGRAPHIC_LOCATIONS[k])]

\* "if location_name in query_lower": the keys that occur in the query
LocationsIn(query_lower) ==
    {k \in DOMAIN LocationNames : Contains(LocationNames[k], query_lower)}

\* the context built for the last key that occurs
enhance_query_with_location_LastKey(user_query) ==
    LET hits == UNION {LocationsIn(query_lower) :
                          query_lower \in {lower(Chars(user_query))}}
    IN  <<Chars(user_query),
          IF hits = {} THEN "None"
          ELSE OCEANOGRAPHIC_LOCATIONS[CHOOSE k \in hits : \A h \in hits : h <= k]>>

\* GeographicService.enhance_query_with_location: (user_query,
\* enhanced_context); the context is modelled by the key it is built for,
\* "None" when there is none
enhance_query_with_location(user_query) ==
    LET hits == UNION {LocationsIn(query_lower) :
                          query_lower \in {lower(Chars(user_query))}}
    IN  <<Chars(user_query),
          IF hits = {} THEN "None"
          ELSE OCEANOGRAPHIC_LOCATIONS[CHOOSE k \in hits : \A h \in hits : k <= h]>>

(***************************************************************************)
(* POST /api/v1/query: process_query and its handlers (main.py), with the  *)
(* pipeline of FloatChatRAGCore.process_query (rag_core.py).  The request  *)
(* is served by process p1.                                                *)
(***************************************************************************)
MinMaxResults == 1           \* max_results: ge=1
DefaultMaxResults == 100     \* max_results: default=100
ConvContextLimit == 5        \* recent_messages[-5:]
DefaultMaxTurns == 8         \* get_conversation_context(max_turns=8)
HistoryLimit == 10           \* get_recent_history(session_id, limit=10)
SessionHistoryLimit == 50    \* get_recent_history(session_id, limit=50)

ConvFallbackLen == 107       \* the fixed reply of handle_conversational_query

HelpFallbackLen == 159       \* the fixed reply of handle_help_query

ReasoningLen == 31           \* len("Here is the data you requested:")

MaxDocs == 2                 \* documents the vector index returns (top_k 5)
MaxDistance == 150           \* the largest index distance, in hundredths
ContextWeight == 60          \* avg_similarity * 0.6
SelectBonus == 2000          \* score += 0.2
JoinBonus == 1000            \* score += 0.1
WhereBonus == 1000           \* score += 0.1
FullConfidence == 10000      \* min(score, 1.0)

ResponseTypes ==
    {"conversational", "data_query", "visualization", "map", "summary",
     "comparison", "help"}

\* no IntentResult yet
NoIntent ==
    [response_type |-> "none", confidence |-> 0, visualization_type |-> "None",
     requires_data |-> FALSE]

\* no result of enhance_query_with_location yet
NoGeo == <<<<>>, "unset">>

\* turns as a list in ascending turn_index
RECURSIVE Chronological(_)
Chronological(turns) ==
    IF turns = {} THEN <<>>
    ELSE LET last == CHOOSE t \in turns : \A u \in turns : u.turn_index <= t.turn_index
         IN  Append(Chronological(turns \ {last}), last)

\* turns as a list in descending turn_index
RECURSIVE NewestFirst(_)
NewestFirst(turns) ==
    IF turns = {} THEN <<>>
    ELSE LET last == CHOOSE t \in turns : \A u \in turns : u.turn_index <= t.turn_index
         IN  <<last>> \o NewestFirst(turns \ {last})

\* get_recent_history without messages.reverse()
get_recent_history_NotReversed(turns, limit, ok) ==
    IF ok THEN NewestFirst(NewestTurns(turns, limit)) ELSE <<>>

\* ChatHistoryManager.get_recent_history; [] on a store error
get_recent_history(turns, limit, ok) ==
    IF ok THEN Chronological(NewestTurns(turns, limit)) ELSE <<>>

\* messages[-n:]
LastN(messages, n) ==
    SubSeq(messages, Len(messages) - Min(n, Len(messages)) + 1, Len(messages))

\* the context lines with a line for every message, whatever its role
ContextTurns_AnyRole(messages) == messages

\* the messages that the handlers and get_conversation_context turn into a
\* line of the context: "if role == 'user' ... elif role == 'assistant'"
ContextTurns(messages) ==
    SelectSeq(messages, LAMBDA msg : msg.role = "user" \/ msg.role = "assistant")

\* ChatHistoryManager.get_conversation_context: the messages behind its lines
get_conversation_context(turns, max_turns, ok) ==
    ContextTurns(get_recent_history(turns, max_turns * 2, ok))

\* the route with requires_data looked at first
Route_DataFirst(it) ==
    IF it.requires_data THEN "rag_embed"
    ELSE IF it.response_type = "help" THEN "help"
    ELSE "conversational"

\* process_query step 3: the handler the intent is routed to
Route(it) ==
    IF it.response_type = "conversational" THEN "conversational"
    ELSE IF it.response_type = "help" THEN "help"
    ELSE IF it.requires_data THEN "rag_embed"
    ELSE "conversational"

\* what the language model returns as the message content; "<fence>" stands
\* for the three backquotes of a markdown code fence
LlmOutputs ==
    {<<"SELECT", " ", "x">>,
     <<"<fence>sql", "\n", "SELECT", " ", "x", "\n", "<fence>">>,
     <<"DROP", " ", "x", ";">>,
     <<>>}

\* FloatChatRAGCore._clean_sql_output
_clean_sql_output(sql_output) ==
    LET unfenced == SelectSeq(sql_output, LAMBDA a : a \notin {"<fence>sql", "<fence>"})
        joined == CollapseWs(LStrip(unfenced))
    IN  IF joined # <<>> /\ joined[Len(joined)] = ";"
        THEN joined
        ELSE joined \o <<";">>

\* an exception reaches "except Exception" of process_query: the error
\* response is returned and nothing is stored
REQ_Except ==
    /\ resp' = ErrorResponse
    /\ rpc' = "done"
    /\ UNCHANGED chatVars

\* the end of each handler: build the response, then, with a session id,
\* store the user turn (the assistant turn and the cleanup follow)
REQ_Respond(r) ==
    /\ resp' = r
    /\ IF req.session # "none"
       THEN rpc' = "save_user" /\ EnterAddMessage("p1", req.session, Len(req.query))
       ELSE rpc' = "done" /\ UNCHANGED chatVars

\* process_query step 1, lines 369-376: recent_messages, read only with a
\* session id
REQ_History ==
    /\ rpc = "history"
    /\ IF req.session = "none"
       THEN recent' = <<>> /\ UNCHANGED histLimit
       ELSE \E ok \in BOOLEAN :
               /\ recent' = get_recent_history(chat[req.session], HistoryLimit, ok)
               /\ histLimit' = HistoryLimit
    /\ rpc' = "intent"
    /\ UNCHANGED <<req, convContext, intent, ragTrace, ragContext, ragGeo, ragResult, ragConfidence, resp, ragAwaitable>>
    /\ UNCHANGED <<eqVars, chatVars>>

\* process_query steps 2 and 3, lines 378-394: analyze_intent and the route
REQ_Intent ==
    /\ rpc = "intent"
    /\ intent' = analyze_intent(req.query)
    /\ rpc' = Route(intent')
    /\ UNCHANGED <<req, recent, histLimit, convContext, ragGeo, ragTrace, ragContext, ragResult, ragConfidence, resp, ragAwaitable>>
    /\ UNCHANGED <<eqVars, chatVars>>

\* handle_conversational_query: conversation_context from the last five
\* recent messages, then the reply of the language model, or the fixed reply
\* when the model fails
REQ_Conversational ==
    /\ rpc = "conversational"
    /\ convContext' = ContextTurns(LastN(recent, ConvContextLimit))
    /\ \E reply \in CallerLens \cup {ConvFallbackLen} :
          REQ_Respond(Response(TRUE, "conversational", <<>>,
                                <<[message |-> reply, type |-> "conversational"]>>,
                                0, "", reply))
    /\ UNCHANGED <<req, recent, histLimit, ragGeo, intent, ragTrace, ragContext, ragResult, ragConfidence, ragAwaitable>>
    /\ UNCHANGED eqVars

\* handle_help_query: the reply of the language model, or the fixed reply
\* when the model fails
REQ_Help ==
    /\ rpc = "help"
    /\ \E reply \in CallerLens \cup {HelpFallbackLen} :
          REQ_Respond(Response(TRUE, "help", <<>>,
                                <<[message |-> reply, type |-> "help"]>>,
                                0, "", reply))
    /\ UNCHANGED <<req, recent, histLimit, convContext, ragGeo, intent, ragTrace, ragContext, ragResult, ragConfidence, ragAwaitable>>
    /\ UNCHANGED eqVars

\* distances the vector index returns for a query, nearest first: the
\* collection is created without a distance function, so the index measures
\* the squared L2 distance, which is 0 for an identical vector and exceeds 1
\* for distant ones
Distances == {0, 50, MaxDistance}

IndexResults ==
    {d \in UNION {[1..k -> Distances] : k \in 0..MaxDocs} :
        \A i, j \in DOMAIN d : i <= j => d[i] <= d[j]}

\* retrieve_context, lines 181-189: similarity_score = 1 - distance
retrieve_context(distances) ==
    [i \in DOMAIN distances |-> 100 - distances[i]]

RECURSIVE SumSeq(_)
SumSeq(xs) == IF xs = <<>> THEN 0 ELSE Head(xs) + SumSeq(Tail(xs))

\* the text contains the keyword, in any case
HasText(sql_query, kw) ==
    \E i \in DOMAIN sql_query : Upper(sql_query[i]) = kw

\* FloatChatRAGCore.calculate_confidence_score, in ten-thousandths
calculate_confidence_score(context_docs, sql_query) ==
    LET context_part ==
            IF context_docs # <<>>
            THEN (SumSeq(context_docs) * ContextWeight) \div Len(context_docs)
            ELSE 0
        select_part ==
            IF sql_query # <<>> /\ MatchAt(<<"SELECT">>, Strip(UpperSeq(sql_query)), 1)
            THEN SelectBonus ELSE 0
        join_part ==
            IF sql_query # <<>> /\ HasText(sql_query, "JOIN") THEN JoinBonus ELSE 0
        where_part ==
            IF sql_query # <<>> /\ HasText(sql_query, "WHERE") THEN WhereBonus ELSE 0
    IN  Min(context_part + select_part + join_part + where_part, FullConfidence)

\* embed_query attempted a second time after its first failure
RAG_Embed_Retry ==
    /\ rpc = "rag_embed"
    /\ \E ok \in BOOLEAN :
          /\ ragTrace' = Append(ragTrace, <<"embed", IF ok THEN "ok" ELSE "fail">>)
          /\ IF ok
             THEN /\ rpc' = "rag_retrieve"
                  /\ UNCHANGED <<ragResult, ragConfidence, resp, chatVars>>
             ELSE IF ragTrace = <<>>
             THEN UNCHANGED <<rpc, ragResult, ragConfidence, resp, chatVars>>
             ELSE /\ ragResult' = "raised"
                  /\ REQ_Except
                  /\ UNCHANGED ragConfidence
    /\ convContext' = ContextTurns(recent)
    /\ UNCHANGED <<req, recent, histLimit, ragGeo, intent, ragContext, ragAwaitable>>
    /\ UNCHANGED eqVars

\* handle_data_query lines 596-614 build conversation_context from the
\* recent messages.  FloatChatRAGCore.process_query step 1: embed_query raises what the
\* embedding model raises, process_query raises it again, and
\* handle_data_query lets it pass
RAG_Embed ==
    /\ rpc = "rag_embed"
    /\ \E ok \in BOOLEAN :
          /\ ragTrace' = Append(ragTrace, <<"embed", IF ok THEN "ok" ELSE "fail">>)
          /\ IF ok
             THEN /\ rpc' = "rag_retrieve"
                  /\ UNCHANGED <<ragResult, ragConfidence, resp, chatVars>>
             ELSE /\ ragResult' = "raised"
                  /\ REQ_Except
                  /\ UNCHANGED ragConfidence
    /\ convContext' = ContextTurns(recent)
    /\ UNCHANGED <<req, recent, histLimit, ragGeo, intent, ragContext, ragAwaitable>>
    /\ UNCHANGED eqVars

\* FloatChatRAGCore.process_query step 2: retrieve_context returns the
\* documents of the index, [] when the index query raises
RAG_Retrieve ==
    /\ rpc = "rag_retrieve"
    /\ \E ok \in BOOLEAN, distances \in IndexResults :
          /\ ragTrace' = Append(ragTrace,
                <<"retrieve", IF ~ok THEN "fail"
                              ELSE IF distances = <<>> THEN "zero" ELSE "ok">>)
          /\ ragContext' = IF ok THEN retrieve_context(distances) ELSE <<>>
    /\ rpc' = "rag_prompt"
    /\ UNCHANGED <<req, recent, histLimit, convContext, ragGeo, intent, ragResult, ragConfidence, resp, ragAwaitable>>
    /\ UNCHANGED <<eqVars, chatVars>>

\* what the last stored user message of a session may read
PreviousUserMessages == {"thanks", "floats in the pacific"}

\* handle_data_query lines 615-619: the query handed to
\* FloatChatRAGCore.process_query is the request's query, after the last user
\* message of the recent history when there is one
query_for_embedding(recent_messages, query) ==
    IF \E i \in DOMAIN recent_messages : recent_messages[i].role = "user"
    THEN {previous \o " " \o query : previous \in PreviousUserMessages}
    ELSE {query}

\* FloatChatRAGCore.process_query step 3: engineer_prompt, which asks the
\* geographic service for the location context of the query it was handed
RAG_Prompt ==
    /\ rpc = "rag_prompt"
    /\ ragTrace' = Append(ragTrace, <<"prompt", "ok">>)
    /\ \E user_query \in query_for_embedding(recent, req.query) :
          ragGeo' = enhance_query_with_location(user_query)
    /\ rpc' = "rag_generate"
    /\ UNCHANGED <<req, recent, histLimit, convContext, intent, ragContext, ragResult, ragConfidence, resp, ragAwaitable>>
    /\ UNCHANGED <<eqVars, chatVars>>

\* FloatChatRAGCore.process_query steps 4 and 5, and handle_data_query
\* lines 621-629.  invoke_llm raises on any failure of the model.  Its
\* result is awaited: a plain function's result raises TypeError there.  An
\* empty sql_query raises HTTPException.  Each of them reaches "except
\* Exception" of process_query.  Otherwise execute_query is called.
RAG_Generate ==
    /\ rpc = "rag_generate"
    /\ \E ok \in BOOLEAN, out \in LlmOutputs :
          LET sql_query == _clean_sql_output(out)
          IN  /\ ragTrace' = Append(ragTrace, <<"generate", IF ok THEN "ok" ELSE "fail">>)
              /\ ragResult' = IF ok THEN "returned" ELSE "raised"
              /\ ragConfidence' = IF ok
                                  THEN calculate_confidence_score(ragContext, sql_query)
                                  ELSE ragConfidence
              /\ IF ok /\ ragAwaitable /\ sql_query # <<>>
                 THEN /\ rpc' = "execute"
                      /\ eqpc' = "validate"
                      /\ eqSql' = sql_query
                      /\ UNCHANGED <<eqSan, eqSanitized, storeLog, eqResult, eqRaised>>
                      /\ UNCHANGED <<resp, chatVars>>
                 ELSE /\ REQ_Except
                      /\ UNCHANGED eqVars
    /\ UNCHANGED <<req, recent, histLimit, convContext, ragGeo, intent, ragContext, ragAwaitable>>

\* every row of the result, whatever max_results
limited_data_All(data, max_results) == data

\* handle_data_query line 634: db_result.data[:request.max_results]
limited_data(data, max_results) ==
    IF data # <<>> THEN SubSeq(data, 1, Min(max_results, Len(data))) ELSE <<>>

\* the response of handle_data_query with a fixed response_type
REQ_DataRespond_FixedType ==
    /\ rpc = "execute"
    /\ eqpc = "done"
    /\ IF eqRaised
       THEN REQ_Except
       ELSE REQ_Respond(Response(eqResult.success, "data_query", eqSql,
                                 limited_data(eqResult.data, req.max_results),
                                 Len(limited_data(eqResult.data, req.max_results)),
                                 IF eqResult.success THEN "" ELSE eqResult.error_message,
                                 ReasoningLen))
    /\ UNCHANGED <<req, recent, histLimit, convContext, ragGeo, intent, ragTrace, ragContext, ragResult, ragConfidence, ragAwaitable>>
    /\ UNCHANGED eqVars

\* handle_data_query, lines 629-660: the response built from the result of
\* execute_query
REQ_DataRespond ==
    /\ rpc = "execute"
    /\ eqpc = "done"
    /\ IF eqRaised
       THEN REQ_Except
       ELSE REQ_Respond(Response(eqResult.success, intent.response_type, eqSql,
                                 limited_data(eqResult.data, req.max_results),
                                 Len(limited_data(eqResult.data, req.max_results)),
                                 IF eqResult.success THEN "" ELSE eqResult.error_message,
                                 ReasoningLen))
    /\ UNCHANGED <<req, recent, histLimit, convContext, ragGeo, intent, ragTrace, ragContext, ragResult, ragConfidence, ragAwaitable>>
    /\ UNCHANGED eqVars

\* the handlers after the user turn: add_message for the assistant turn
REQ_SaveAssistant ==
    /\ rpc = "save_user"
    /\ EnterAddMessage("p1", req.session, resp.reply)
    /\ rpc' = "save_assistant"
    /\ UNCHANGED <<req, recent, histLimit, convContext, ragGeo, intent, ragTrace, ragContext, ragResult, ragConfidence, resp, ragAwaitable>>
    /\ UNCHANGED eqVars

\* the handlers after the assistant turn: cleanup_old_messages(session_id)
REQ_Cleanup ==
    /\ rpc = "save_assistant"
    /\ EnterCleanup("p1", req.session, DefaultMaxMessages)
    /\ rpc' = "cleanup"
    /\ UNCHANGED <<req, recent, histLimit, convContext, ragGeo, intent, ragTrace, ragContext, ragResult, ragConfidence, resp, ragAwaitable>>
    /\ UNCHANGED eqVars

\* the handler returns the response
REQ_Return ==
    /\ rpc = "cleanup"
    /\ stack["p1"] = <<>>
    /\ rpc' = "done"
    /\ UNCHANGED <<req, recent, histLimit, convContext, ragGeo, intent, ragTrace, ragContext, ragResult, ragConfidence, resp, ragAwaitable>>
    /\ UNCHANGED <<eqVars, chatVars>>

InitChat ==
    /\ chat = [s \in Sessions |-> {}]
    /\ stack = [p \in Procs |-> <<>>]
    /\ ret = [p \in Procs |-> NoReturn]
    /\ ncalls = [p \in Procs |-> 0]
    /\ written = [s \in Sessions |-> <<>>]
    /\ sumCount = [p \in Procs |-> 0]
    /\ given = [p \in Procs |-> <<>>]
    /\ faults = FALSE

\* no request is being served
InitNoRequest ==
    /\ rpc = "idle"
    /\ req = [session |-> "none", query |-> "", max_results |-> DefaultMaxResults]
    /\ recent = <<>>
    /\ histLimit = 0
    /\ convContext = <<>>
    /\ intent = NoIntent
    /\ ragTrace = <<>>
    /\ ragContext = <<>>
    /\ ragGeo = NoGeo
    /\ ragResult = "none"
    /\ ragConfidence = 0
    /\ resp = NoResponse
    /\ ragAwaitable = FALSE

InitEQ ==
    /\ eqSql = <<>>
    /\ eqpc = "idle"
    /\ eqSan = <<>>
    /\ eqSanitized = FALSE
    /\ storeLog = <<>>
    /\ eqResult = NoResult
    /\ eqRaised = FALSE

(***************************************************************************)
(* Specification of execute_query on its own: one call per behaviour, for  *)
(* every input of SqlInputs.                                               *)
(***************************************************************************)
InitSQL ==
    /\ eqSql \in SqlInputs
    /\ eqpc = "validate"
    /\ eqSan = <<>>
    /\ eqSanitized = FALSE
    /\ storeLog = <<>>
    /\ eqResult = NoResult
    /\ eqRaised = FALSE
    /\ InitChat
    /\ InitNoRequest

NextSQL == EQ_Validate \/ EQ_Sanitize \/ EQ_SetTimeout \/ EQ_Execute

SpecSQL == InitSQL /\ [][NextSQL]_vars

(***************************************************************************)
(* Specification of the conversation store used by one caller: calls of    *)
(* add_message, cleanup_old_messages and get_recent_history on one         *)
(* session, one after another.                                             *)
(***************************************************************************)
InitChatSeq == InitChat /\ InitEQ /\ InitNoRequest

\* the caller stores one more message, of either size
Caller_AddMessage ==
    /\ ncalls["p1"] < MaxCalls
    /\ \E len \in CallerLens : CallAddMessage("p1", "s1", len)

\* the caller trims the session as the request handlers do
Caller_Cleanup == CallCleanup("p1", "s1", DefaultMaxMessages)

\* the caller reads the recent history of the session between two calls
Caller_GetRecentHistory ==
    /\ stack["p1"] = <<>>
    /\ \E limit \in {HistoryLimit, SessionHistoryLimit} :
       \E e \in Answers("p1") :
          /\ recent' = get_recent_history(chat["s1"], limit, e = "ok")
          /\ histLimit' = limit
    /\ UNCHANGED <<rpc, req, convContext, intent, ragTrace, ragContext, ragGeo, ragResult, ragConfidence, resp, ragAwaitable>>
    /\ UNCHANGED <<eqVars, chatVars>>

NextChatSeq ==
    \/ Caller_AddMessage
    \/ Caller_Cleanup
    \/ Caller_GetRecentHistory
    \/ AM_ReadMax("p1")
    \/ AM_Insert("p1")
    \/ OPT_Count("p1")
    \/ OPT_Select("p1")
    \/ OPT_Delete("p1")
    \/ CL_Count("p1")
    \/ CL_Delete("p1")

SpecChat == InitChatSeq /\ [][NextChatSeq]_vars

(***************************************************************************)
(* Specification of two server processes (main.py runs uvicorn with        *)
(* WORKERS processes, each with its own manager and pool) that store       *)
(* messages of the same session at the same time.                          *)
(***************************************************************************)
SeedTurns ==
    {[turn_index |-> 1, role |-> "user", len |-> ShortLen],
     [turn_index |-> 2, role |-> "assistant", len |-> ShortLen]}

InitConc ==
    /\ chat \in {[s \in Sessions |-> {}],
                 [s \in Sessions |-> IF s = "s1" THEN SeedTurns ELSE {}]}
    /\ written = [s \in Sessions |-> [i \in 1..Cardinality(chat[s]) |-> i]]
    /\ stack = [p \in Procs |-> <<>>]
    /\ ret = [p \in Procs |-> NoReturn]
    /\ ncalls = [p \in Procs |-> 0]
    /\ sumCount = [p \in Procs |-> 0]
    /\ given = [p \in Procs |-> <<>>]
    /\ faults = FALSE
    /\ InitEQ
    /\ InitNoRequest

\* one of the processes stores one more message of session s1.  The
\* messages are short: the session stays under max_session_tokens, and
\* optimize_conversation_history returns after its count.
Conc_AddMessage(p) ==
    /\ ncalls[p] < MaxConcCalls
    /\ CallAddMessage(p, "s1", ShortLen)

NextConc ==
    \E p \in Procs :
        \/ Conc_AddMessage(p)
        \/ AM_ReadMax(p)
        \/ AM_Insert(p)
        \/ OPT_Count(p)

SpecConc == InitConc /\ [][NextConc]_vars

(***************************************************************************)
(* Specification of one request to POST /api/v1/query, with or without a   *)
(* session id, on a session that is new or close to max_session_tokens.    *)
(***************************************************************************)
FullSeedTurns ==
    {[turn_index |-> i,
      role |-> IF i % 2 = 1 THEN "user" ELSE "assistant",
      len |-> IF i \in {2, 4} THEN StoredLen(LongLen) ELSE ShortLen] : i \in 1..6}

\* a session over max_session_tokens: its turns were stored while the token
\* count could not be read
OverCeilingTurns ==
    {[turn_index |-> i,
      role |-> IF i % 2 = 1 THEN "user" ELSE "assistant",
      len |-> StoredLen(LongLen)] : i \in 1..4}

\* a session after a summarization pass: its five oldest turns are deleted
\* and their summary is its newest turn
EvictedTurns ==
    LET before == OverCeilingTurns \cup
                     {[turn_index |-> 5, role |-> "user", len |-> ShortLen],
                      [turn_index |-> 6, role |-> "assistant", len |-> ShortLen]}
        old_messages == OldestTurns(before, SummaryBatch)
    IN  (before \ old_messages) \cup
            {[turn_index |-> 7, role |-> "system", len |-> SummaryLen(old_messages)]}

\* the queries of the requests: one for each route of process_query
ReqQueries ==
    {"thanks", "data", "what can you do?", "tell me a funny joke please",
     "Show me temperature near Mumbai in March 2023",
     "Compare salinity between two regions"}

InitReq ==
    /\ rpc = "history"
    /\ req \in [session : {"none", "s1"}, query : ReqQueries,
                 max_results : {MinMaxResults, DefaultMaxResults}]
    /\ recent = <<>>
    /\ histLimit = 0
    /\ convContext = <<>>
    /\ intent = NoIntent
    /\ ragTrace = <<>>
    /\ ragContext = <<>>
    /\ ragGeo = NoGeo
    /\ ragResult = "none"
    /\ ragConfidence = 0
    /\ resp = NoResponse
    /\ ragAwaitable \in BOOLEAN
    /\ chat \in {[s \in Sessions |-> IF s = "s1" THEN turns ELSE {}] :
                    turns \in {{}, FullSeedTurns, EvictedTurns}}
    /\ written = [s \in Sessions |->
                    [i \in 1..get_next_turn_index(chat[s], TRUE) - 1 |-> i]]
    /\ stack = [p \in Procs |-> <<>>]
    /\ ret = [p \in Procs |-> NoReturn]
    /\ ncalls = [p \in Procs |-> 0]
    /\ sumCount = [p \in Procs |-> 0]
    /\ given = [p \in Procs |-> <<>>]
    /\ faults \in BOOLEAN
    /\ InitEQ

NextReq ==
    \/ REQ_History
    \/ REQ_Intent
    \/ REQ_Conversational
    \/ REQ_Help
    \/ RAG_Embed
    \/ RAG_Retrieve
    \/ RAG_Prompt
    \/ RAG_Generate
    \/ EQ_Validate
    \/ EQ_Sanitize
    \/ EQ_SetTimeout
    \/ EQ_Execute
    \/ REQ_DataRespond
    \/ REQ_SaveAssistant
    \/ REQ_Cleanup
    \/ REQ_Return
    \/ AM_ReadMax("p1")
    \/ AM_Insert("p1")
    \/ OPT_Count("p1")
    \/ OPT_Select("p1")
    \/ OPT_Delete("p1")
    \/ CL_Count("p1")
    \/ CL_Delete("p1")

SpecReq == InitReq /\ [][NextReq]_vars

(***************************************************************************)
(* Specification of the classification and enrichment of a query: a        *)
(* request without a session id, followed up to the composed prompt, for   *)
(* every query of IntentQueries.                                           *)
(***************************************************************************)
\* the words the queries are made of
Vocabulary ==
    {"thanks", "Hello", "ok", "data", "show", "temperature", "near", "Mumbai",
     "help", "compare", "plot", "north", "atlantic", "pacific", "japanese"}

\* ' '.join(words)
RECURSIVE Join(_)
Join(words) ==
    IF words = <<>> THEN ""
    ELSE IF Len(words) = 1 THEN words[1]
    ELSE words[1] \o " " \o Join(Tail(words))

\* the test_queries of intent_service.py that ReqQueries does not hold, and
\* a query that names two places
IntentExamples ==
    {"how are you", "Show me temperature data from float 5904471",
     "Plot temperature trends over time",
     "Map the locations of floats near Mumbai",
     "Give me a summary of all measurements", "What can you do?",
     "Draw a scatter plot of temperature vs depth",
     "Compare temperature in the North Atlantic and the Pacific"}

IntentQueries ==
    ReqQueries \cup IntentExamples
        \cup {Join(ws) : ws \in UNION {[1..k -> Vocabulary] : k \in 0..MaxQueryWords}}

InitIntent ==
    /\ rpc = "history"
    /\ req \in [session : {"none"}, query : IntentQueries,
                 max_results : {DefaultMaxResults}]
    /\ recent = <<>>
    /\ histLimit = 0
    /\ convContext = <<>>
    /\ intent = NoIntent
    /\ ragTrace = <<>>
    /\ ragContext = <<>>
    /\ ragGeo = NoGeo
    /\ ragResult = "none"
    /\ ragConfidence = 0
    /\ resp = NoResponse
    /\ ragAwaitable = TRUE
    /\ InitChat
    /\ InitEQ

NextIntent ==
    \/ REQ_History
    \/ REQ_Intent
    \/ REQ_Conversational
    \/ REQ_Help
    \/ RAG_Embed
    \/ RAG_Retrieve
    \/ RAG_Prompt

SpecIntent == InitIntent /\ [][NextIntent]_vars

(***************************************************************************)
(* Properties of execute_query (checked under SpecSQL).                    *)
(***************************************************************************)
\* the statements handed to the store as the main query
MainQueries == {storeLog[i].sql : i \in {j \in DOMAIN storeLog : storeLog[j].kind = "query"}}

\* exactly one semicolon, and nothing but whitespace after it
SingleStatement(q) ==
    /\ Count(q, ";") = 1
    /\ \A i \in DOMAIN q : q[i] = ";" => NextNonWs(q, i) = 0

StartsWithSelect(q) == q # <<>> /\ Upper(q[1]) = "SELECT"

\* as many "(" as ")"
EqualParenCounts(q) == Count(q, "(") = Count(q, ")")

\* every ")" closes an earlier "(", and every "(" is closed
BalancedParens(q) ==
    /\ EqualParenCounts(q)
    /\ \A i \in DOMAIN q :
          Count(SubSeq(q, 1, i), ")") <= Count(SubSeq(q, 1, i), "(")

\* C1: every SQL string execute_query hands to the store as the main query
\* is a single statement, starts with SELECT and has balanced parentheses.
C1_SingleBalancedSelect ==
    \A q \in MainQueries :
        SingleStatement(q) /\ StartsWithSelect(q) /\ BalancedParens(q)

\* C2: when validate_sql rejects the query, execute_query sends nothing to
\* the store (no timeout statement, no query), does not sanitize, and returns
\* success = false, no data, row_count = 0 and the validation reason.
C2_RejectedNeverExecuted ==
    ~validate_sql(eqSql).valid =>
        /\ storeLog = <<>>
        /\ ~eqSanitized
        /\ eqpc \in {"validate", "done"}
        /\ eqpc = "done" =>
              /\ ~eqRaised
              /\ eqResult = [success |-> FALSE, data |-> <<>>, row_count |-> 0,
                             error_message |-> "SQL Validation Error",
                             detail |-> <<validate_sql(eqSql).reason,
                                          validate_sql(eqSql).detail>>]

C2_Witness ==
    /\ eqpc = "done"
    /\ ~validate_sql(eqSql).valid
    /\ validate_sql(eqSql).reason = "Multiple SQL statements are not allowed"
    /\ eqResult.error_message = "SQL Validation Error"

\* C10: execute_query never lets an exception out; the result it returns
\* has row_count = number of data rows and no error_message on success, and
\* empty data, row_count = 0 and an error_message on failure.
C10_AlwaysAResult ==
    /\ ~eqRaised
    /\ eqpc = "done" =>
          /\ eqResult # NoResult
          /\ eqResult.success =>
                eqResult.row_count = Len(eqResult.data) /\ eqResult.error_message = ""
          /\ ~eqResult.success =>
                /\ eqResult.data = <<>>
                /\ eqResult.row_count = 0
                /\ eqResult.error_message # ""

C10_Witness ==
    /\ eqpc = "done"
    /\ Len(storeLog) = 2
    /\ ~eqResult.success
    /\ eqResult.error_message = "Unexpected error"

\* the forbidden keywords that occur in s as whole words
KeywordsIn(s) ==
    {FORBIDDEN_KEYWORDS[k] : k \in {j \in DOMAIN FORBIDDEN_KEYWORDS :
                                        HasWord(s, FORBIDDEN_KEYWORDS[j])}}

\* kw comes before every other keyword of ks in FORBIDDEN_KEYWORDS
EarliestListed(kw, ks) ==
    \E k \in DOMAIN FORBIDDEN_KEYWORDS :
        /\ FORBIDDEN_KEYWORDS[k] = kw
        /\ \A j \in 1..(k - 1) : FORBIDDEN_KEYWORDS[j] \notin ks

\* execute_query returned the rejection of validate_sql with this reason
RejectedWith(why, what) ==
    /\ eqpc = "done"
    /\ storeLog = <<>>
    /\ eqResult = FailureResult("SQL Validation Error", <<why, what>>)

\* C14 as stated: every SQL string that contains a forbidden keyword as a
\* whole word is rejected by validate_sql, and the reason names a keyword
\* the string contains.
C14_KeywordAlwaysNamed ==
    (eqpc # "validate" /\ KeywordsIn(UpperSeq(eqSql)) # {}) =>
        \E kw \in KeywordsIn(UpperSeq(eqSql)) :
            RejectedWith("Forbidden keyword detected", <<kw>>)

\* C14 amended: when the upper-cased text without its comments starts with
\* SELECT and contains a forbidden keyword as a whole word, validate_sql
\* returns false and the reason names the keyword that comes first in
\* FORBIDDEN_KEYWORDS among those it contains; a text that does not start
\* with SELECT is rejected with "Only SELECT statements are allowed".
C14_KeywordNamedAfterSelect ==
    LET n == StripComments(Strip(UpperSeq(eqSql)))
    IN  (eqpc # "validate" /\ Strip(eqSql) # <<>>) =>
            /\ (n = <<>> \/ Head(n) # "SELECT") =>
                  RejectedWith("Only SELECT statements are allowed", <<>>)
            /\ (n # <<>> /\ Head(n) = "SELECT" /\ KeywordsIn(n) # {}) =>
                  \E kw \in KeywordsIn(n) :
                      /\ EarliestListed(kw, KeywordsIn(n))
                      /\ RejectedWith("Forbidden keyword detected", <<kw>>)

C14_Witness ==
    /\ eqSql = StackedDropDelete
    /\ RejectedWith("Forbidden keyword detected", <<"DELETE">>)

\* C15 as stated: "SELECT * FROM floats; DROP TABLE floats;" is rejected
\* with the multiple-statements reason and the store is never invoked.
C15_StackedDropMultipleStatements ==
    eqSql = StackedDrop =>
        /\ storeLog = <<>>
        /\ eqpc # "validate" =>
              RejectedWith("Multiple SQL statements are not allowed", <<>>)

\* C15 amended: "SELECT * FROM floats; DROP TABLE floats;" is rejected with
\* the forbidden-keyword reason naming DROP (that check runs before the
\* multiple-statements check) and the store is never invoked.
C15_StackedDropForbiddenKeyword ==
    eqSql = StackedDrop =>
        /\ storeLog = <<>>
        /\ ~eqSanitized
        /\ eqpc # "validate" =>
              RejectedWith("Forbidden keyword detected", <<"DROP">>)

C15_Witness ==
    /\ eqSql = StackedDrop
    /\ eqpc = "done"
    /\ ~eqResult.success
    /\ eqResult.detail[2] = <<"DROP">>

\* C16: sanitize_sql is idempotent on accepted input: sanitizing the
\* sanitized query of an accepted sql_query gives the sanitized query again.
C16_SanitizeIdempotent ==
    eqSanitized => sanitize_sql(eqSan) = eqSan

(***************************************************************************)
(* Properties of the conversation store                                    *)
(***************************************************************************)
OneToN(seq) == seq = [i \in 1..Len(seq) |-> i]

StrictlyIncreasing(seq) == \A i, j \in DOMAIN seq : i < j => seq[i] < seq[j]

\* the caller's last call was add_message and it has returned
AddMessageReturned(p) == stack[p] = <<>> /\ ret[p][1] = "add_message"

UnsummarizedOlder(turns) ==
    {t \in turns \ NewestTurns(turns, SummaryBatch) : t.role # "system"}

\* C5: after an add_message call returns, the session's total token count
\* is at most max_session_tokens, or no turn older than the 5 most recent
\* remains unsummarized.
C5_CeilingOrSummarized ==
    AddMessageReturned("p1") =>
        \/ SumTokens(chat["s1"]) <= max_session_tokens
        \/ UnsummarizedOlder(chat["s1"]) = {}

\* C6: one add_message call of a caller performs at most one summarization
\* pass: at most one summary turn is appended before the call returns.
C6_OneSummaryPerCall == sumCount["p1"] <= 1

\* C7: two add_message calls on the same session that run concurrently both
\* succeed and are given distinct turn_index values; no message is lost.
C7_ConcurrentAddsBothStored ==
    /\ \A p \in Procs : ret[p][1] = "add_message" => ret[p][2]
    /\ \A p, q \in Procs : \A i \in DOMAIN given[p] : \A j \in DOMAIN given[q] :
          (p # q \/ i # j) => given[p][i] # given[q][j]

\* C20: get_recent_history(session_id, limit) returns exactly the
\* min(limit, n) turns of the session with the highest turn_index values,
\* oldest first, in every session state add_message, summarization and
\* cleanup reach.
C20_RecentHistoryNewestOldestFirst ==
    [][(rpc = "idle" /\ <<recent, histLimit>>' # <<recent, histLimit>>) =>
          LET turns == chat["s1"]
              got == recent'
          IN  /\ Len(got) = Min(histLimit', Cardinality(turns))
              /\ \A i \in DOMAIN got : got[i] \in turns
              /\ StrictlyIncreasing([i \in DOMAIN got |-> got[i].turn_index])
              /\ \A t \in turns :
                    (\A i \in DOMAIN got : got[i] # t) =>
                        \A i \in DOMAIN got : t.turn_index < got[i].turn_index]_vars

\* a read with limit 10 of a session that holds more than ten turns, a
\* summary among them, after its oldest turns were deleted
C20_Witness ==
    /\ histLimit = HistoryLimit
    /\ Len(recent) = HistoryLimit
    /\ stack["p1"] = <<>>
    /\ Cardinality(chat["s1"]) > HistoryLimit
    /\ 1 \notin Indices(chat["s1"])
    /\ \E t \in chat["s1"] : t.role = "system"
    /\ \A i \in DOMAIN recent : recent[i] \in chat["s1"]
    /\ recent[1].turn_index < recent[HistoryLimit].turn_index

(***************************************************************************)
(* Properties of a request                                                 *)
(***************************************************************************)
\* C8: for every request that carries a session id, whatever its path and
\* outcome, a user turn and an assistant turn have been appended to the
\* session by the time the response is returned.
C8_TurnPairPersisted ==
    (rpc = "done" /\ req.session # "none") =>
        /\ ncalls["p1"] = 2
        /\ Len(given["p1"]) = 2

\* the retrieval stage failed or matched nothing: the embedding failed, the
\* index query failed, or the index returned no document
RetrievalDegraded ==
    \E i \in DOMAIN ragTrace :
        ragTrace[i] \in {<<"embed", "fail">>, <<"retrieve", "fail">>, <<"retrieve", "zero">>}

\* C9: a retrieval failure of either kind and a retrieval with zero matches
\* never abort the data path: the request goes on to prompt composition and
\* generation with an empty context list.
C9_RetrievalNeverAborts ==
    (RetrievalDegraded /\ ragResult # "none") =>
        /\ ragContext = <<>>
        /\ \E i, j \in DOMAIN ragTrace :
              i < j /\ ragTrace[i][1] = "prompt" /\ ragTrace[j][1] = "generate"

\* C11: a store error met by add_message or cleanup_old_messages while the
\* turns of a request are persisted leaves the response as it was shaped
\* before persistence, and no exception reaches the caller.
C11_PersistenceKeepsResponse ==
    [][(rpc \in PersistPcs) =>
          (/\ resp' = resp
           /\ rpc' \in PersistPcs \cup {"done"}
           /\ ret'["p1"][3] = FALSE)]_vars

\* a request with a session id returned its successful response although a
\* store error kept one of its turns from being stored
C11_Witness ==
    /\ faults
    /\ rpc = "done"
    /\ req.session # "none"
    /\ resp.success
    /\ Len(given["p1"]) < 2

\* the request touched no part of the SQL path: no stage of the pipeline of
\* FloatChatRAGCore.process_query, no call of execute_query
NoSqlPath ==
    /\ ragTrace = <<>>
    /\ ragGeo = NoGeo
    /\ eqpc = "idle"
    /\ ~eqSanitized
    /\ storeLog = <<>>

\* C12: a request classified as help or conversational is answered without
\* composing a SQL prompt, validating SQL or executing SQL at any point, and
\* its response has an empty sql_query and row_count = 0.
C12_ConversationalBypassesSQL ==
    intent.response_type \in {"conversational", "help"} =>
        /\ NoSqlPath
        /\ resp.sql_query = <<>>
        /\ resp.row_count = 0

C12_Witness ==
    /\ rpc = "done"
    /\ req.query = "what can you do?"
    /\ intent.response_type = "help"
    /\ resp.success
    /\ resp.response_type = "help"

\* the stages of FloatChatRAGCore.process_query entered so far
Stages == [i \in DOMAIN ragTrace |-> ragTrace[i][1]]

DataIntent == intent.response_type \notin {"none", "conversational", "help"}

OnlyConversationalMatches(user_query) ==
    \E t \in {Strip(lower(Chars(user_query)))} :
        LET scores == intent_scores(t)
        IN  scores[1] > 0 /\ \A k \in 2..Len(scores) : scores[k] = 0

\* C17 as stated: when only patterns of the conversational set match the
\* query, analyze_intent returns response_type = conversational and
\* requires_data = false.
C17_OnlyConversationalNoData ==
    (intent # NoIntent /\ OnlyConversationalMatches(req.query)) =>
        /\ intent.response_type = "conversational"
        /\ ~intent.requires_data

\* C17 amended: when only patterns of the conversational set match the
\* query, analyze_intent returns response_type = conversational and the
\* request is answered by the conversational handler; requires_data is
\* computed from its own pattern set and can be true (as for "data").
C17_OnlyConversationalIsConversational ==
    (intent # NoIntent /\ OnlyConversationalMatches(req.query)) =>
        /\ intent.response_type = "conversational"
        /\ rpc \in {"conversational", "done"}
        /\ NoSqlPath

C17_Witness ==
    /\ req.query = "data"
    /\ rpc = "done"
    /\ intent.response_type = "conversational"
    /\ intent.requires_data
    /\ resp.response_type = "conversational"

MumbaiQuery == "Show me temperature near Mumbai in March 2023"

\* C18 as stated: for "Show me temperature near Mumbai in March 2023"
\* analyze_intent returns data_query with requires_data = true, and
\* enhance_query_with_location returns a context.
C18_MumbaiIsDataQuery ==
    req.query = MumbaiQuery =>
        /\ intent # NoIntent =>
              intent.response_type = "data_query" /\ intent.requires_data
        /\ ragGeo # NoGeo => ragGeo[2] # "None"

\* C18 amended: for that query analyze_intent returns map (two patterns of
\* the map set match, one of the data_query set), visualization_type map,
\* confidence 0.7 and requires_data = true, and enhance_query_with_location
\* returns the context built for mumbai.
C18_MumbaiIsMap ==
    req.query = MumbaiQuery =>
        /\ intent # NoIntent =>
              intent = [response_type |-> "map", confidence |-> 70,
                        visualization_type |-> "map", requires_data |-> TRUE]
        /\ ragGeo # NoGeo => ragGeo[2] = "mumbai"

C18_Witness ==
    /\ req.query = MumbaiQuery
    /\ rpc = "rag_generate"
    /\ intent.response_type = "map"
    /\ ragGeo[2] = "mumbai"

\* C19: enhance_query_with_location returns the query unchanged; the context
\* is built for the first key of the gazetteer, in the order of its
\* declaration, that occurs in the lower-cased query, and is null when no
\* key occurs.
C19_FirstDeclaredLocation ==
    ragGeo # NoGeo =>
        /\ ragGeo[1] = Chars(req.query)
        /\ \E t \in {lower(Chars(req.query))} :
              LET occurs(k) == Contains(LocationNames[k], t)
              IN  IF \A k \in DOMAIN LocationNames : ~occurs(k)
                  THEN ragGeo[2] = "None"
                  ELSE \E k \in DOMAIN OCEANOGRAPHIC_LOCATIONS :
                          /\ ragGeo[2] = OCEANOGRAPHIC_LOCATIONS[k]
                          /\ occurs(k)
                          /\ \A j \in 1..(k - 1) : ~occurs(j)

\* the query names the atlantic before the pacific; the context is built for
\* the pacific, which the gazetteer declares first
C19_Witness ==
    /\ req.query = "Compare temperature in the North Atlantic and the Pacific"
    /\ ragGeo = <<Chars(req.query), "pacific">>

(***************************************************************************)
(* Further properties of the conversation store                            *)
(***************************************************************************)
\* process p returns from its outermost call of fn with result r in this step
Returns(p, fn, r) ==
    /\ stack[p] # <<>>
    /\ stack[p][1].fn = fn
    /\ stack'[p] = <<>>
    /\ ret'[p] = <<fn, r, FALSE>>

\* kept holds the Min(n, Cardinality(turns)) turns with the highest
\* turn_index of turns
HighestOf(kept, turns, n) ==
    /\ kept \subseteq turns
    /\ Cardinality(kept) = Min(n, Cardinality(turns))
    /\ \A d \in turns \ kept : \A k \in kept : d.turn_index < k.turn_index

\* C21: after cleanup_old_messages(session_id, max_messages) returns true on
\* a session holding n turns, the session holds the min(n, max_messages)
\* turns with the highest turn_index; and after every completed request with
\* a session id the session holds at most 20 turns.
C21_CleanupKeepsNewest ==
    /\ [][Returns("p1", "cleanup", TRUE) =>
            HighestOf(chat'[stack["p1"][1].session], chat[stack["p1"][1].session],
                      stack["p1"][1].len)]_vars
    /\ [](rpc = "done" /\ req.session # "none" =>
            Cardinality(chat[req.session]) <= DefaultMaxMessages)

(***************************************************************************)
(* Scores                                                                  *)
(***************************************************************************)
\* C22: every similarity_score of a retrieved document, the confidence_score
\* computed for the generated SQL and the intent confidence lie in [0,1].
C22_ScoresInUnitInterval ==
    /\ \A i \in DOMAIN ragContext : ragContext[i] \in 0..100
    /\ ragConfidence \in 0..FullConfidence
    /\ intent.confidence \in 0..100

(***************************************************************************)
(* Attempts                                                                *)
(***************************************************************************)
\* how many times a stage of FloatChatRAGCore.process_query was entered
StageCount(stage) ==
    Cardinality({i \in DOMAIN ragTrace : ragTrace[i][1] = stage})

\* how many times the generated statement was handed to the store
ExecutionCount ==
    Cardinality({i \in DOMAIN storeLog : storeLog[i].kind = "query"})

\* C23: within one request the query embedding, the vector-index lookup,
\* the generation call and the SQL execution are each invoked at most once,
\* and a failed one is not followed by a second attempt.
C23_NoRetries ==
    /\ \A stage \in {"embed", "retrieve", "generate"} : StageCount(stage) <= 1
    /\ ExecutionCount <= 1
    /\ \A i \in DOMAIN ragTrace :
          ragTrace[i][2] = "fail" =>
              \A j \in DOMAIN ragTrace : j > i => ragTrace[j][1] # ragTrace[i][1]
    /\ (eqRaised \/ (eqpc = "done" /\ ~eqResult.success)) => ExecutionCount <= 1

\* a request that ended after its generation call failed, and one that ended
\* after the store failed the statement
C23_Witness ==
    /\ rpc = "done"
    /\ \/ \E i \in DOMAIN ragTrace : ragTrace[i] = <<"generate", "fail">>
       \/ eqpc = "done" /\ ~eqResult.success /\ ExecutionCount = 1

(***************************************************************************)
(* One summarization pass                                                  *)
(***************************************************************************)
\* the pass of optimize_conversation_history that the innermost add_message
\* of p started ends in this step with its DELETE committed
PassCompletes(p) ==
    /\ Running(p, "add_message", "delete")
    /\ Len(stack'[p]) = Len(stack[p]) - 1
    /\ chat'[Top(p).session] \cap Top(p).old = {}

\* C24: a completed summarization pass deletes the (up to) 5 turns with the
\* lowest turn_index present when it started, adds one system-role summary
\* turn whose turn_index is greater than that of every other stored turn,
\* and leaves every other turn of the session unchanged.
C24_PassChangesExactly ==
    [][\A p \in Procs :
          PassCompletes(p) =>
              LET before == Top(p).seen
                  after == chat'[Top(p).session]
                  oldest == OldestTurns(before, SummaryBatch)
              IN  /\ before \ after = oldest
                  /\ \E t \in after \ before :
                        /\ after \ before = {t}
                        /\ t.role = "system"
                        /\ \A u \in after \ {t} : u.turn_index < t.turn_index]_vars

(***************************************************************************)
(* The selected response type                                              *)
(***************************************************************************)
\* response type k has the highest match count, and no type declared before
\* it has the same count
HighestFirstDeclared(scores, k) ==
    /\ scores[k] > 0
    /\ \A j \in DOMAIN scores : scores[j] <= scores[k]
    /\ \A j \in DOMAIN scores : scores[j] = scores[k] => k <= j

\* the IntentResult carries response type k, or its promotion from
\* comparison to visualization
SelectedIs(scores, k) ==
    \/ intent.response_type = ResponseTypeOrder[k]
    \/ /\ ResponseTypeOrder[k] = "comparison"
       /\ scores[3] > 0
       /\ intent.response_type = "visualization"

\* C25: when at least one intent pattern matches, analyze_intent selects the
\* response type with the highest match count and, among the types tied for
\* it, the one declared first in the pattern table (before the promotion of a
\* comparison to a visualization).
C25_HighestCountFirstDeclared ==
    intent # NoIntent =>
        \A scores \in {intent_scores(t) : t \in {Strip(lower(Chars(req.query)))}} :
            (\E j \in DOMAIN scores : scores[j] > 0) =>
                \E k \in DOMAIN scores :
                    HighestFirstDeclared(scores, k) /\ SelectedIs(scores, k)

\* a query whose highest count is shared by two response types
C25_Witness ==
    /\ intent # NoIntent
    /\ \E scores \in {intent_scores(t) : t \in {Strip(lower(Chars(req.query)))}} :
          \E k, j \in DOMAIN scores :
              /\ HighestFirstDeclared(scores, k) /\ SelectedIs(scores, k)
              /\ k < j /\ scores[j] = scores[k]

(***************************************************************************)
(* Specification of one add_message call that is run to its end: the       *)
(* thread of the call is scheduled and every statement is answered by the  *)
(* store or by the pool's timeout.  The session is new, close to           *)
(* max_session_tokens, or over it.                                         *)
(***************************************************************************)
InitLive ==
    /\ chat \in {[s \in Sessions |-> IF s = "s1" THEN turns ELSE {}] :
                    turns \in {{}, FullSeedTurns, OverCeilingTurns, EvictedTurns}}
    /\ written = [s \in Sessions |->
                    [i \in 1..get_next_turn_index(chat[s], TRUE) - 1 |-> i]]
    /\ stack = [p \in Procs |-> <<>>]
    /\ ret = [p \in Procs |-> NoReturn]
    /\ ncalls = [p \in Procs |-> 0]
    /\ sumCount = [p \in Procs |-> 0]
    /\ given = [p \in Procs |-> <<>>]
    /\ faults \in BOOLEAN
    /\ InitEQ
    /\ InitNoRequest

\* the one call of the behaviour, with a message of either size
Live_AddMessage ==
    /\ ret["p1"] = NoReturn
    /\ \E len \in CallerLens : CallAddMessage("p1", "s1", len)

\* one statement of the running add_message call of p
Live_Step(p) ==
    \/ AM_ReadMax(p)
    \/ AM_Insert(p)
    \/ OPT_Count(p)
    \/ OPT_Select(p)
    \/ OPT_Delete(p)

NextLive ==
    \/ Live_AddMessage
    \/ AM_ReadMax("p1")
    \/ AM_Insert("p1")
    \/ OPT_Count("p1")
    \/ OPT_Select("p1")
    \/ OPT_Delete("p1")

SpecLive == InitLive /\ [][NextLive]_vars /\ WF_vars(Live_Step("p1"))

\* C26: every add_message call terminates, also on a session over the
\* ceiling: the chain add_message -> optimize_conversation_history ->
\* add_message ends after a finite number of nested calls and add_message
\* returns a boolean.
C26_AddMessageTerminates ==
    /\ [](Len(stack["p1"]) <= PoolSize + 1)
    /\ [](ret["p1"][3] = FALSE)
    /\ (stack["p1"] # <<>>) ~>
          (stack["p1"] = <<>> /\ ret["p1"][1] = "add_message" /\ ret["p1"][2] \in BOOLEAN)

\* a call on a session over the ceiling has returned after the nested chain
\* used every connection of the pool
C26_Witness ==
    /\ stack["p1"] = <<>>
    /\ ret["p1"] = <<"add_message", TRUE, FALSE>>
    /\ sumCount["p1"] = PoolSize - 1

(***************************************************************************)
(* The index of a persisted turn                                           *)
(***************************************************************************)
\* C27: whenever add_message persists a turn, its turn_index is strictly
\* greater than the turn_index of every turn stored for that session at that
\* moment, also after evictions and when the read of the maximum fails.
C27_PersistedIndexIsHighest ==
    [][\A s \in Sessions :
          \A t \in chat'[s] \ chat[s] :
              \A u \in chat[s] : u.turn_index < t.turn_index]_vars

(***************************************************************************)
(* Specification of two server processes that serve two different          *)
(* sessions at the same time: their statements interleave in any order.    *)
(***************************************************************************)
\* the session that the requests served by process p belong to
SessionOf(p) == IF p = "p1" THEN "s1" ELSE "s2"

InitIso ==
    /\ chat = [s \in Sessions |-> IF s = "s1" THEN FullSeedTurns ELSE SeedTurns]
    /\ written = [s \in Sessions |-> [i \in 1..Cardinality(chat[s]) |-> i]]
    /\ stack = [p \in Procs |-> <<>>]
    /\ ret = [p \in Procs |-> NoReturn]
    /\ ncalls = [p \in Procs |-> 0]
    /\ sumCount = [p \in Procs |-> 0]
    /\ given = [p \in Procs |-> <<>>]
    /\ faults = FALSE
    /\ InitEQ
    /\ InitNoRequest

Iso_AddMessage(p) ==
    /\ ncalls[p] < MaxIsoCalls
    /\ \E len \in CallerLens : CallAddMessage(p, SessionOf(p), len)

Iso_Cleanup(p) ==
    /\ ret[p] # NoReturn
    /\ CallCleanup(p, SessionOf(p), DefaultMaxMessages)

NextIso ==
    \E p \in Procs :
        \/ Iso_AddMessage(p)
        \/ Iso_Cleanup(p)
        \/ AM_ReadMax(p)
        \/ AM_Insert(p)
        \/ OPT_Count(p)
        \/ OPT_Select(p)
        \/ OPT_Delete(p)
        \/ CL_Count(p)
        \/ CL_Delete(p)

SpecIso == InitIso /\ [][NextIso]_vars

\* C28: add_message, optimize_conversation_history and cleanup_old_messages
\* invoked for one session never add, delete or modify a turn of any other
\* session, for any interleaving of operations on different sessions.
C28_SessionIsolation ==
    [][\A p \in Procs :
          (stack[p] # <<>> /\ stack'[p] # stack[p]) =>
              \A s \in Sessions \ {Top(p).session} : chat'[s] = chat[s]]_vars

\* the first process has summarized and trimmed its session while the
\* second is in the middle of storing a turn of the other session
C28_Witness ==
    /\ ret["p1"] = <<"cleanup", TRUE, FALSE>>
    /\ 1 \notin Indices(chat["s1"])
    /\ Cardinality(chat["s1"]) = DefaultMaxMessages
    /\ Running("p2", "add_message", "insert")
    /\ chat["s2"] = SeedTurns

(***************************************************************************)
(* The conversation context                                                *)
(***************************************************************************)
\* the turn_index values given to the turns that the request itself stored
OwnIndices == {given["p1"][j] : j \in DOMAIN given["p1"]}

\* C29: the conversation context handed to the generation service holds only
\* user and assistant turns: never a system-role summary turn, and never a
\* turn of the current request.
C29_ContextUserAssistantOnly ==
    /\ \A i \in DOMAIN convContext :
          /\ convContext[i].role \in {"user", "assistant"}
          /\ convContext[i].turn_index \notin OwnIndices
          /\ \E j \in DOMAIN recent : recent[j] = convContext[i]
    /\ \A s \in Sessions :
          \A msgs \in {get_conversation_context(chat[s], DefaultMaxTurns, TRUE)} :
              \A i \in DOMAIN msgs : msgs[i].role \in {"user", "assistant"}

\* a request that built its context from a history with a summary turn in
\* it, and then stored its own two turns
C29_Witness ==
    /\ rpc = "done"
    /\ convContext # <<>>
    /\ \E j \in DOMAIN recent : recent[j].role = "system"
    /\ Len(given["p1"]) = 2

(***************************************************************************)
(* The response of the data path                                           *)
(***************************************************************************)
\* the response was built by handle_data_query from a result of execute_query
DataPathResponse ==
    /\ resp # NoResponse
    /\ eqpc = "done"
    /\ ~eqRaised

====
